---------------------------- MODULE Spec2Model ----------------------------
(***************************************************************************)
(* A model of the LLM-output quality-gate and repair subsystem of the      *)
(* paper-to-video pipeline: BaseAgent.extract_json (agents/base.py),       *)
(* ScriptAgent.generate_script and its helpers (agents/script_agent.py)    *)
(* and the narration repair helpers of LLMClient (src/utils/llm_client.py).*)
(*                                                                         *)
(* A text is a sequence of characters; a character is a one-element        *)
(* string.  Characters the lexer of TLA+ cannot hold in a string carry a   *)
(* name instead: "BT" the backtick, "NBSP" U+00A0, "ZWSP" U+200B, "ZWNJ"   *)
(* U+200C, "BOM" U+FEFF, "zh1".."zh9" and "zh" CJK ideographs (U+4E00 to   *)
(* U+9FFF), "u3002" the CJK full stop, "uFF0C" the full-width comma,       *)
(* "u3001" the ideographic comma, "uFF1B" the full-width semicolon.        *)
(***************************************************************************)
EXTENDS Integers, Sequences, FiniteSets, TLC

VARIABLES
    exText,     \* extract_json: the argument text
    exWrap,     \* how the argument was made: "raw", or the wrapping of a document
    exObjs,     \* the objects the argument was serialised from, in text order
    exPc,       \* extract_json: "call" before the call, "done" after it
    exRes,      \* extract_json: the outcome of the call
    saSection,  \* generate_script: the section, its title and its summary
    saEnv,      \* generate_script: the provider keys set in the environment
    saMaxRetries, \* generate_script: the argument max_retries
    saPc,       \* generate_script: the call of call_llm the agent is at
    saAttempt,  \* generate_script: the loop variable attempt
    saCtx,      \* _post_process: called for the primary ("main") or for the
                \* quality re-generation ("quality")
    saRewrites, \* _post_process: the rewrite tries done
    saScript,   \* generate_script: the script in hand, script or script_q
    saResult,   \* generate_script: the script returned, or the exception
    lcParts,    \* LLMClient: the content, or the parts, the helper is called with
    lcTopic,    \* LLMClient: the argument topic
    lcPc,       \* LLMClient: the helper called, and where it is
    lcFixed,    \* LLMClient: the parts fixed, or the text returned
    qaScripts,  \* QAAgent: the batch of scripts check_scripts_quality is called with
    qaPc,       \* QAAgent: "call" before the call, "done" after it
    qaResult,   \* QAAgent: passed, issues and repetition_rate of the call
    orMaxRetries, \* OrchestratorAgent.analyze_paper: max_retries
    orPc,       \* analyze_paper: the call of call_llm it is at, or "done"
    orAttempt,  \* analyze_paper: attempt
    orTokens,   \* analyze_paper: prompt_tokens and completion_tokens of the primary call
    orResult,   \* analyze_paper: the result returned, or the exception raised
    pvKeys,     \* LLMClient with providers: the provider keys set in the environment
    pvParts,    \* the content, or the parts, the helper is called with
    pvTopic,    \* the argument topic
    pvPc,       \* the helper called, and the call of chat_completion it is at
    pvFixed,    \* the list fixed of _validate_and_repair_parts, or the text returned
    pvTxt,      \* txt, what the last call of chat_completion returned, or that it raised
    pvAsked,    \* the calls of chat_completion made by the similarity step
    tpLoop,     \* the retry loop that runs: of generate_script or of generate_section_script
    tpMaxRetries, \* the number of turns of the loop: max_retries, or 3
    tpAttempt,  \* the loop variable attempt
    tpPc,       \* "call" at the call of the LLM of the attempt, "done" after the loop
    tpTemperature, \* the argument temperature of the call, in hundredths
    wfMaxQaRetries, \* A2AWorkflow.run: the argument max_qa_retries
    wfSections, \* run: the number of sections the orchestrator returned
    wfPc,       \* run: the call of an agent it is at, "done" or "raised"
    wfAttempt,  \* run: the loop variable attempt
    wfScripts,  \* run: the list scripts of the round
    wfSlides,   \* run: the list slides of the round
    wfState,    \* self.state: scripts, slides, qa_report and total_tokens
    wfAgents,   \* total_tokens of the orchestrator, the script and the slide agent
    wfRounds,   \* the rounds of the loop begun so far
    wfResult,   \* run: the dict returned
    ccTokens,   \* the agent two threads share: self.total_tokens
    ccCost,     \* self.total_cost, in units of 0.05 dollar per million tokens
    ccThreads   \* of each thread that runs generate_script: where it is, and its locals

exVars == <<exText, exWrap, exObjs, exPc, exRes>>

saVars == <<saSection, saEnv, saMaxRetries, saPc, saAttempt, saCtx, saRewrites, saScript,
            saResult>>

lcVars == <<lcParts, lcTopic, lcPc, lcFixed>>

qaVars == <<qaScripts, qaPc, qaResult>>

orVars == <<orMaxRetries, orPc, orAttempt, orTokens, orResult>>

pvVars == <<pvKeys, pvParts, pvTopic, pvPc, pvFixed, pvTxt, pvAsked>>

tpVars == <<tpLoop, tpMaxRetries, tpAttempt, tpPc, tpTemperature>>

ccVars == <<ccTokens, ccCost, ccThreads>>

wfVars == <<wfMaxQaRetries, wfSections, wfPc, wfAttempt, wfScripts, wfSlides, wfState,
            wfAgents, wfRounds, wfResult>>

vars == <<exVars, saVars, lcVars, qaVars, orVars, pvVars, tpVars, wfVars, ccVars>>

(***************************************************************************)
(* Characters and Python string helpers                                    *)
(***************************************************************************)
BT == "BT"

\* Python's Unicode whitespace as seen by str.strip() and by \s in re
ReWs == {" ", "\t", "\n", "\r", "NBSP"}

\* whitespace of the JSON grammar (json.decoder.WHITESPACE)
JsonWs == {" ", "\t", "\n", "\r"}

\* code points below U+0020, which json.loads (strict) refuses inside strings
JsonControl == {"\t", "\n", "\r"}

Digits == {"0", "1", "2", "3", "4", "5", "6", "7", "8", "9"}

DigitVal == [d \in Digits |->
    CASE d = "0" -> 0 [] d = "1" -> 1 [] d = "2" -> 2 [] d = "3" -> 3 [] d = "4" -> 4
      [] d = "5" -> 5 [] d = "6" -> 6 [] d = "7" -> 7 [] d = "8" -> 8 [] OTHER -> 9]

Min(S) == CHOOSE x \in S : \A y \in S : x <= y

Max(S) == CHOOSE x \in S : \A y \in S : x >= y

\* the positions lo..hi as a sequence, in order
Indices(lo, hi) == [k \in 1..(IF hi >= lo THEN hi - lo + 1 ELSE 0) |-> lo + k - 1]

\* s[lo..hi] as Python slices it (empty when hi < lo)
Slice(s, lo, hi) == IF hi >= lo THEN SubSeq(s, lo, hi) ELSE <<>>

\* the characters of s at the positions keep, in that order
Pick(s, keep) == [m \in 1..Len(keep) |-> s[keep[m]]]

\* the text s without the positions of the set gone
Without(s, gone) == Pick(s, SelectSeq(Indices(1, Len(s)), LAMBDA k : k \notin gone))

\* does s hold w at position p
HasAt(s, p, w) == p >= 1 /\ p + Len(w) - 1 <= Len(s) /\ SubSeq(s, p, p + Len(w) - 1) = w

\* the positions of lo..hi that satisfy P, in order
Sel(lo, hi, P(_)) == SelectSeq(Indices(lo, hi), P)

\* the first and the last element of a sequence of positions (0 when empty)
FirstOf(q) == IF Len(q) = 0 THEN 0 ELSE q[1]

LastOf(q) == IF Len(q) = 0 THEN 0 ELSE q[Len(q)]

\* x, or d when x is 0
OrElse(x, d) == IF x = 0 THEN d ELSE x

\* the first position of lo..hi that satisfies P (0 when there is none)
First(lo, hi, P(_)) == FirstOf(Sel(lo, hi, P))

\* the last position of lo..hi that satisfies P (0 when there is none)
Last(lo, hi, P(_)) == LastOf(Sel(lo, hi, P))

\* last position of the maximal run of characters of cls that starts at p
\* (p - 1 when the run is empty)
RunEnd(s, p, cls) == OrElse(First(p, Len(s), LAMBDA j : s[j] \notin cls), Len(s) + 1) - 1

\* first position of the maximal run of characters of cls that ends at p
\* (p + 1 when the run is empty)
RunStart(s, p, cls) == Last(1, p, LAMBDA j : s[j] \notin cls) + 1

\* str.strip()
strip(s) ==
    Slice(s, OrElse(First(1, Len(s), LAMBDA j : s[j] \notin ReWs), Len(s) + 1),
             Last(1, Len(s), LAMBDA j : s[j] \notin ReWs))

(***************************************************************************)
(* json.loads.  A JSON value is a record [t, v]: t its Python type, v its  *)
(* content.  A dict is a function from keys (texts) to values, so that     *)
(* equality of dicts is equality of functions, as in Python.  Numbers are  *)
(* integers: the input alphabets have no ".", "e" or "E", nor the letters  *)
(* of NaN and Infinity, nor the letter u of a \u escape.                  *)
(***************************************************************************)
JNone == [t |-> "None", v |-> 0]

JBool(b) == [t |-> "bool", v |-> b]

JNum(n) == [t |-> "int", v |-> n]

JStr(s) == [t |-> "str", v |-> s]

JList(q) == [t |-> "list", v |-> q]

JDict(f) == [t |-> "dict", v |-> f]

EmptyDict == JDict(<<>>)

\* Python truthiness of a value (the test of `if not data`)
Truthy(x) ==
    CASE x.t = "None" -> FALSE
      [] x.t = "bool" -> x.v
      [] x.t = "int"  -> x.v # 0
      [] x.t = "str"  -> Len(x.v) > 0
      [] x.t = "list" -> Len(x.v) > 0
      [] OTHER        -> DOMAIN x.v # {}

\* the character a backslash escape stands for (json.decoder.BACKSLASH)
EscapeMap == [c \in {"\"", "\\", "/", "n", "t", "r"} |->
    CASE c = "n" -> "\n" [] c = "t" -> "\t" [] c = "r" -> "\r" [] OTHER -> c]

PFail == [ok |-> FALSE, val |-> JNone, pos |-> 0]

POk(x, p) == [ok |-> TRUE, val |-> x, pos |-> p]

\* number of consecutive backslashes that end at position k, none below lo
BackslashRun(s, k, lo) ==
    IF k < lo THEN 0 ELSE k - Max({lo - 1, Last(lo, k, LAMBDA j : s[j] # "\\")})

\* is position k of the string opened at position i (k > i) unescaped
Unescaped(s, k, i) == BackslashRun(s, k - 1, i + 1) % 2 = 0

\* the content of a string literal: the characters of s at the positions
\* keep, those that an escaping backslash (a position of escs) precedes
\* replaced by what the escape stands for
Unescape(s, escs, keep) ==
    [m \in 1..Len(keep) |->
        IF (keep[m] - 1) \in escs THEN EscapeMap[s[keep[m]]] ELSE s[keep[m]]]

\* the string between the quotes at i and j, its escaping backslashes at escs
StringBody(s, i, j, escs) ==
    IF \/ \E k \in (i + 1)..(j - 1) : s[k] \in JsonControl
       \/ \E k \in escs : s[k + 1] \notin DOMAIN EscapeMap
    THEN PFail
    ELSE POk(JStr(Unescape(s, escs, Sel(i + 1, j - 1, LAMBDA k : k \notin escs))), j + 1)

\* the string from the quote at i to the closing quote at j (0: unterminated)
StringTo(s, i, j) ==
    IF j = 0 THEN PFail
    ELSE StringBody(s, i, j, {k \in (i + 1)..(j - 1) : s[k] = "\\" /\ Unescaped(s, k, i)})

\* py_scanstring: the string whose opening quote is at position i
ParseString(s, i) ==
    StringTo(s, i, First(i + 1, Len(s), LAMBDA k : s[k] = "\"" /\ Unescaped(s, k, i)))

RECURSIVE DigitsValue(_, _, _)
DigitsValue(s, i, j) == IF j < i THEN 0 ELSE 10 * DigitsValue(s, i, j - 1) + DigitVal[s[j]]

\* the digits of NUMBER_RE, (0|[1-9][0-9]*), from position d
Unsigned(s, d) ==
    IF d > Len(s) \/ s[d] \notin Digits THEN PFail
    ELSE IF s[d] = "0" THEN POk(JNum(0), d + 1)
    ELSE POk(JNum(DigitsValue(s, d, RunEnd(s, d, Digits))), RunEnd(s, d, Digits) + 1)

Negative(x) == IF x.ok THEN POk(JNum(0 - x.val.v), x.pos) ELSE PFail

\* NUMBER_RE restricted to integers: -?(0|[1-9][0-9]*)
ParseNumber(s, i) == IF s[i] = "-" THEN Negative(Unsigned(s, i + 1)) ELSE Unsigned(s, i)

SkipWs(s, i) == RunEnd(s, i, JsonWs) + 1

RECURSIVE ParseValue(_, _)
RECURSIVE ParseMembers(_, _, _), MembersColon(_, _, _), MembersValue(_, _, _, _)
RECURSIVE MembersPair(_, _, _, _), MembersNext(_, _, _), MembersKey(_, _, _)
RECURSIVE ParseElements(_, _, _), ElementsItem(_, _, _), ElementsNext(_, _, _)

\* JSONObject, from the first position k after the opening brace that is not
\* whitespace: the empty object, or the members from the first key
ObjectOpen(s, k) ==
    IF k > Len(s) THEN PFail
    ELSE IF s[k] = "}" THEN POk(EmptyDict, k + 1)
    ELSE IF s[k] = "\"" THEN ParseMembers(s, k, <<>>)
    ELSE PFail

\* JSONArray, from the first position k after the opening bracket that is not
\* whitespace: the empty list, or the elements from the first value
ArrayOpen(s, k) ==
    IF k > Len(s) THEN PFail
    ELSE IF s[k] = "]" THEN POk(JList(<<>>), k + 1)
    ELSE ParseElements(s, k, <<>>)

\* scan_once: the value that starts at position i
ParseValue(s, i) ==
    IF i > Len(s) THEN PFail
    ELSE CASE s[i] = "\"" -> ParseString(s, i)
           [] s[i] = "{" -> ObjectOpen(s, SkipWs(s, i + 1))
           [] s[i] = "[" -> ArrayOpen(s, SkipWs(s, i + 1))
           [] HasAt(s, i, <<"n", "u", "l", "l">>) -> POk(JNone, i + 4)
           [] HasAt(s, i, <<"t", "r", "u", "e">>) -> POk(JBool(TRUE), i + 4)
           [] HasAt(s, i, <<"f", "a", "l", "s", "e">>) -> POk(JBool(FALSE), i + 5)
           [] s[i] \in Digits \cup {"-"} -> ParseNumber(s, i)
           [] OTHER -> PFail

\* JSONObject's loop, one operator per step so that each step's result is
\* computed once: the members from the key whose opening quote is at i; acc
\* holds the pairs read so far
ParseMembers(s, i, acc) == MembersColon(s, ParseString(s, i), acc)

\* after the key: whitespace, then the colon
MembersColon(s, key, acc) ==
    IF ~key.ok THEN PFail ELSE MembersValue(s, key.val.v, SkipWs(s, key.pos), acc)

\* the colon at position c, whitespace, then the value of the key k
MembersValue(s, k, c, acc) ==
    IF c > Len(s) \/ s[c] # ":" THEN PFail
    ELSE MembersPair(s, k, ParseValue(s, SkipWs(s, c + 1)), acc)

\* the pair of k and the value x, a later pair replacing an earlier one
MembersPair(s, k, x, acc) ==
    IF ~x.ok THEN PFail ELSE MembersNext(s, SkipWs(s, x.pos), (k :> x.val) @@ acc)

\* after a pair: the closing brace or a comma at position e
MembersNext(s, e, now) ==
    IF e > Len(s) THEN PFail
    ELSE IF s[e] = "}" THEN POk(JDict(now), e + 1)
    ELSE IF s[e] # "," THEN PFail
    ELSE MembersKey(s, SkipWs(s, e + 1), now)

\* after a comma: the opening quote of the next key at position n
MembersKey(s, n, now) ==
    IF n > Len(s) \/ s[n] # "\"" THEN PFail ELSE ParseMembers(s, n, now)

\* JSONArray's loop: the elements from the value at position i
ParseElements(s, i, acc) == ElementsItem(s, ParseValue(s, i), acc)

ElementsItem(s, x, acc) ==
    IF ~x.ok THEN PFail ELSE ElementsNext(s, SkipWs(s, x.pos), Append(acc, x.val))

\* after an element: the closing bracket or a comma at position e
ElementsNext(s, e, now) ==
    IF e > Len(s) THEN PFail
    ELSE IF s[e] = "]" THEN POk(JList(now), e + 1)
    ELSE IF s[e] # "," THEN PFail
    ELSE ParseElements(s, SkipWs(s, e + 1), now)

\* the outcome of a Python call: a value returned or an exception raised
Returned(x) == [exc |-> FALSE, val |-> x]

Raised == [exc |-> TRUE, val |-> JNone]

\* raw_decode's result x for the document s: nothing but whitespace may follow
Document(s, x) ==
    IF x.ok /\ SkipWs(s, x.pos) > Len(s) THEN Returned(x.val) ELSE Raised

\* json.loads(s): the value of the one JSON document s, or JSONDecodeError
json_loads(s) == Document(s, ParseValue(s, SkipWs(s, 1)))

(***************************************************************************)
(* BaseAgent.extract_json                                                  *)
(***************************************************************************)
Fence == <<BT, BT, BT>>

UpperCase == {"J", "S", "O", "N"}

\* str.lower() of one character, for the letters re.IGNORECASE can meet here
Lower(c) == CASE c = "J" -> "j" [] c = "S" -> "s" [] c = "O" -> "o" [] c = "N" -> "n"
              [] OTHER -> c

LineStart(s, p) == p = 1 \/ s[p - 1] = "\n"

\* does s hold w at position p, letter case ignored
HasAtNoCase(s, p, w) ==
    /\ p >= 1
    /\ p + Len(w) - 1 <= Len(s)
    /\ \A k \in 1..Len(w) : Lower(s[p + k - 1]) = w[k]

\* str.lstrip(BOM)
LstripBom(text) ==
    Slice(text, OrElse(First(1, Len(text), LAMBDA j : text[j] # "BOM"), Len(text) + 1),
                Len(text))

\* str.replace(NBSP, " ")
NbspToSpace(c) == [k \in 1..Len(c) |-> IF c[k] = "NBSP" THEN " " ELSE c[k]]

\* cleaned.lstrip(BOM).replace(ZWSP, "").replace(ZWNJ, "").replace(NBSP, " ")
Normalize(text) ==
    NbspToSpace(SelectSeq(LstripBom(text), LAMBDA x : x \notin {"ZWSP", "ZWNJ"}))

\* the \s*\n of the opening fence, from position q: \s* is greedy and gives
\* back down to the last newline of the whitespace run
OpenFenceRun(s, q) == Last(q, RunEnd(s, q, ReWs), LAMBDA j : s[j] = "\n")

\* last position of the match of ^```(?:json)?\s*\n (IGNORECASE, MULTILINE)
\* that starts at p, 0 when there is none
OpenFenceEnd(s, p) ==
    IF ~(LineStart(s, p) /\ HasAt(s, p, Fence)) THEN 0
    ELSE OpenFenceRun(s, IF HasAtNoCase(s, p + 3, <<"j", "s", "o", "n">>)
                         THEN p + 7 ELSE p + 3)

\* re.sub(r"^```(?:json)?\s*\n", "", s, flags=IGNORECASE|MULTILINE)
StripOpenFences(s) == Without(s, UNION {p..OpenFenceEnd(s, p) : p \in 1..Len(s)})

\* the \s*$ of the closing fence whose whitespace run ends at w: $ holds at
\* the end of the text and before a newline
CloseFenceRun(s, p, w) ==
    IF w = Len(s) THEN Len(s)
    ELSE Max({0, Last(p + 4, w, LAMBDA j : s[j] = "\n") - 1})

\* last position of the match of \n```\s*$ (MULTILINE) that starts at p, 0 when
\* there is none
CloseFenceEnd(s, p) ==
    IF ~(s[p] = "\n" /\ HasAt(s, p + 1, Fence)) THEN 0
    ELSE CloseFenceRun(s, p, RunEnd(s, p + 4, ReWs))

\* re.sub(r"\n```\s*$", "", s, flags=MULTILINE)
StripCloseFences(s) == Without(s, UNION {p..CloseFenceEnd(s, p) : p \in 1..Len(s)})

\* lines 94-100: the cleaned text
Cleaned(text) == strip(StripCloseFences(StripOpenFences(Normalize(text))))

\* the closing brace or bracket at position r that ends a match of
\* ,\s*([}\]]): the last position the substitution removes, 0 when no match
CommaClose(s, r) == IF r <= Len(s) /\ s[r] \in {"}", "]"} THEN r - 1 ELSE 0

\* last position removed for the match of ,\s*([}\]]) that starts at k
CommaRun(s, k) == IF s[k] = "," THEN CommaClose(s, RunEnd(s, k + 1, ReWs) + 1) ELSE 0

\* re.sub(r',\s*([}\]])', r'\1', s): every comma that only whitespace parts
\* from a closing brace or bracket goes, with that whitespace
TrailingCommaFix(s) == Without(s, UNION {k..CommaRun(s, k) : k \in 1..Len(s)})

NoSpan == [found |-> FALSE, lo |-> 0, hi |-> 0]

Span(a, b) == [found |-> TRUE, lo |-> a, hi |-> b]

\* the span from b to c, when there is a c
SpanTo(b, c) == IF c = 0 THEN NoSpan ELSE Span(b, c)

\* the span from b to c, when there is a b
SpanFrom(b, c) == IF b = 0 THEN NoSpan ELSE Span(b, c)

\* (\{.*?\}) \s* ```  from the opening brace expected at b: the lazy .*? stops
\* at the first closing brace that whitespace and a fence follow
FencedFrom(s, b) ==
    IF b <= Len(s) /\ s[b] = "{"
    THEN SpanTo(b, First(b + 1, Len(s), LAMBDA c :
                        s[c] = "}" /\ HasAt(s, RunEnd(s, c + 1, ReWs) + 1, Fence)))
    ELSE NoSpan

\* group 1 of the match of  open \s* (\{.*?\}) \s* ```  that starts at p
FencedAt(s, p, open) ==
    IF HasAt(s, p, open) THEN FencedFrom(s, RunEnd(s, p + Len(open), ReWs) + 1)
    ELSE NoSpan

\* group 1 of the leftmost match of  open \s* (\{.*?\}) \s* ```  (DOTALL),
\* open being ```json or ```
FencedSpan(s, open) ==
    FencedAt(s, First(1, Len(s), LAMBDA p : FencedAt(s, p, open).found), open)

\* (\{[^\n]*\}\s*$) for the text whose last character that is not
\* whitespace is at c: the match starts at the first opening brace that no
\* newline parts from c and runs to the end of the text
SameLineEnd(s, c) ==
    IF c = 0 \/ s[c] # "}" THEN NoSpan
    ELSE SpanFrom(First(Last(1, c - 1, LAMBDA j : s[j] = "\n") + 1, c - 1,
                        LAMBDA j : s[j] = "{"),
                  Len(s))

\* group 1 of the leftmost match of (\{[^\n]*\}\s*$): the text must end, but
\* for whitespace, with a closing brace
SameLineSpan(s) == SameLineEnd(s, Last(1, Len(s), LAMBDA j : s[j] \notin ReWs))

\* (\{.*?\}) from the opening brace at b
LazyFrom(s, b) ==
    IF b = 0 THEN NoSpan ELSE SpanTo(b, First(b + 1, Len(s), LAMBDA j : s[j] = "}"))

\* group 1 of the leftmost match of (\{.*?\}) (DOTALL): from the first opening
\* brace to the first closing brace after it
LazySpan(s) == LazyFrom(s, First(1, Len(s), LAMBDA j : s[j] = "{"))

\* TryReturn without its try block: the exception of the parse escapes
NoTryReturn(x, rest) == x

\* try: return X  except Exception: (go on with rest)
TryReturn(x, rest) == IF x.exc THEN rest ELSE x

\* lines 119-127 and 161-168: parse the fragment, and on an exception parse
\* it again without its trailing commas; exc tells that both parses raised
ParseOrFix(frag) == TryReturn(json_loads(frag), json_loads(TrailingCommaFix(frag)))

\* lines 116-127: one turn of the loop over the patterns, for what re.search
\* found; rest is the outcome of the turns that follow
TryPattern(s, m, rest) ==
    IF m.found THEN TryReturn(ParseOrFix(SubSeq(s, m.lo, m.hi)), rest) ELSE rest

\* lines 109-127: the value returned from inside the pattern loop; exc tells
\* that the loop ran to its end without returning
FromPatterns(s) ==
    TryPattern(s, FencedSpan(s, Fence \o <<"j", "s", "o", "n">>),
    TryPattern(s, FencedSpan(s, Fence),
    TryPattern(s, SameLineSpan(s),
    TryPattern(s, LazySpan(s),
               Raised))))

\* the state of the scanner's loop (lines 131-134)
ScanInit == [depth |-> 0, start_idx |-> -1, in_str |-> FALSE, esc |-> 0, ret |-> NoSpan]

\* the turn of a scanner that takes no notice of strings: every brace counts
ScanCharNoString(s, st, i) ==
    IF s[i] = "{"
    THEN [st EXCEPT !.start_idx = IF st.depth = 0 THEN i ELSE @, !.depth = @ + 1]
    ELSE IF s[i] = "}" /\ st.depth > 0
         THEN [st EXCEPT !.depth = @ - 1,
                         !.ret = IF st.depth = 1 /\ st.start_idx # -1
                                 THEN Span(st.start_idx, i) ELSE @]
    ELSE st

\* one turn of the loop of scan_first_object, for the character at position i.
\* esc holds the position of the character an escaping backslash makes the
\* loop skip (0 when the flag is down): the flag lives for one character.
ScanChar(s, st, i) ==
    LET ch == s[i]
    IN  IF st.in_str
        THEN IF st.esc = i THEN [st EXCEPT !.esc = 0]
             ELSE IF ch = "\\" THEN [st EXCEPT !.esc = i + 1]
             ELSE IF ch = "\"" THEN [st EXCEPT !.in_str = FALSE, !.esc = 0]
             ELSE [st EXCEPT !.esc = 0]
        ELSE IF ch = "\"" THEN [st EXCEPT !.in_str = TRUE]
             ELSE IF ch = "{"
                  THEN [st EXCEPT !.start_idx = IF st.depth = 0 THEN i ELSE @,
                                  !.depth = @ + 1]
             ELSE IF ch = "}" /\ st.depth > 0
                  THEN [st EXCEPT !.depth = @ - 1,
                                  !.ret = IF st.depth = 1 /\ st.start_idx # -1
                                          THEN Span(st.start_idx, i) ELSE @]
             ELSE st

RECURSIVE ScanLoop(_, _, _, _)
\* the loop over the characters, taken from one character that can change the
\* state (a quote, a backslash, a brace) to the next: marks holds their
\* positions in order
ScanLoop(s, marks, m, st) ==
    IF st.ret.found \/ m > Len(marks) THEN st.ret
    ELSE ScanLoop(s, marks, m + 1, ScanChar(s, st, marks[m]))

\* lines 130-157: the span of the first balanced top-level object
scan_first_object(s) ==
    ScanLoop(s, Sel(1, Len(s), LAMBDA j : s[j] \in {"\"", "\\", "{", "}"}), 1, ScanInit)

\* lines 159-168: parse the candidate the scanner found
FromCandidate(s, candidate) ==
    IF candidate.found THEN ParseOrFix(SubSeq(s, candidate.lo, candidate.hi)) ELSE Raised

FromScan(s) == FromCandidate(s, scan_first_object(s))

\* lines 172-177, start and end being 0 where Python has -1
FromBraces(s, start, end) ==
    IF start # 0 /\ end # 0 /\ end > start
    THEN json_loads(TrailingCommaFix(SubSeq(s, start, end)))
    ELSE Raised

\* lines 170-179: first opening brace to last closing brace, commas fixed
FromLastResort(s) ==
    FromBraces(s, First(1, Len(s), LAMBDA j : s[j] = "{"),
                  Last(1, Len(s), LAMBDA j : s[j] = "}"))

\* lines 102-182, for the cleaned text
FromCleaned(cleaned) ==
    TryReturn(json_loads(cleaned),
    TryReturn(FromPatterns(cleaned),
    TryReturn(FromScan(cleaned),
    TryReturn(FromLastResort(cleaned),
              Returned(JNone)))))

\* BaseAgent.extract_json(text): the value returned, or the exception raised
extract_json(text) ==
    IF Len(text) = 0 THEN Returned(JNone) ELSE FromCleaned(Cleaned(text))

(***************************************************************************)
(* The arguments extract_json is called with: every text over ExAlphabet   *)
(* up to ExMaxLen characters, and serialised objects in the decorations an *)
(* LLM puts around them.  An object is written in source form, its pairs   *)
(* in insertion order, and serialised as json.dumps does.                  *)
(***************************************************************************)
ExMaxLen == 3

ExAlphabet == {"{", "}", "[", "]", "\"", ",", ":", "1", "a", "\n", BT}

SrcNum(n) == [t |-> "int", n |-> n]

SrcStr(s) == [t |-> "str", s |-> s]

SrcList(q) == [t |-> "list", items |-> q]

SrcDict(q) == [t |-> "dict", items |-> q]

DigitChar == <<"1", "2", "3", "4", "5", "6", "7", "8", "9">>

RECURSIVE Value(_), ValueItems(_, _), ValuePairs(_, _)
\* the Python value of an object in source form
Value(x) ==
    CASE x.t = "int"  -> JNum(x.n)
      [] x.t = "str"  -> JStr(x.s)
      [] x.t = "list" -> JList(ValueItems(x.items, Len(x.items)))
      [] OTHER        -> JDict(ValuePairs(x.items, Len(x.items)))

ValueItems(q, n) == IF n = 0 THEN <<>> ELSE Append(ValueItems(q, n - 1), Value(q[n]))

ValuePairs(q, n) ==
    IF n = 0 THEN <<>> ELSE (q[n][1] :> Value(q[n][2])) @@ ValuePairs(q, n - 1)

\* one character of a JSON string literal
EscapeChar(c) ==
    CASE c = "\"" -> <<"\\", "\"">>
      [] c = "\\" -> <<"\\", "\\">>
      [] c = "\n" -> <<"\\", "n">>
      [] OTHER -> <<c>>

RECURSIVE EscapeRange(_, _, _)
\* the body of a JSON string literal for s[lo..hi], by halves
EscapeRange(s, lo, hi) ==
    IF hi < lo THEN <<>>
    ELSE IF hi = lo THEN EscapeChar(s[lo])
    ELSE EscapeRange(s, lo, (lo + hi) \div 2) \o EscapeRange(s, ((lo + hi) \div 2) + 1, hi)

\* the body of a JSON string literal for the text s
EscapeText(s) == EscapeRange(s, 1, Len(s))

Quoted(s) == <<"\"">> \o EscapeText(s) \o <<"\"">>

RECURSIVE Dumps(_, _), DumpsItems(_, _, _), DumpsPairs(_, _, _)
\* json.dumps(x); tc = 1 puts a trailing comma before the closing brace or
\* bracket of x when x is not empty, tc = 2 does so in every container of x
Dumps(x, tc) ==
    LET inner == IF tc = 2 THEN 2 ELSE 0
        tail  == IF tc > 0 /\ Len(x.items) > 0 THEN <<",">> ELSE <<>>
    IN  CASE x.t = "int"  -> <<DigitChar[x.n]>>
          [] x.t = "str"  -> Quoted(x.s)
          [] x.t = "list" -> <<"[">> \o DumpsItems(x.items, Len(x.items), inner) \o tail \o <<"]">>
          [] OTHER        -> <<"{">> \o DumpsPairs(x.items, Len(x.items), inner) \o tail \o <<"}">>

DumpsItems(q, n, tc) ==
    IF n = 0 THEN <<>>
    ELSE DumpsItems(q, n - 1, tc) \o (IF n > 1 THEN <<",", " ">> ELSE <<>>) \o Dumps(q[n], tc)

DumpsPairs(q, n, tc) ==
    IF n = 0 THEN <<>>
    ELSE DumpsPairs(q, n - 1, tc) \o (IF n > 1 THEN <<",", " ">> ELSE <<>>)
           \o Quoted(q[n][1]) \o <<":", " ">> \o Dumps(q[n][2], tc)

ExObjects ==
    { SrcDict(<< <<<<"a">>, SrcNum(1)>> >>),
      SrcDict(<< <<<<"a">>, SrcNum(1)>>, <<<<"b">>, SrcStr(<<"x">>)>> >>),
      SrcDict(<< <<<<"k">>, SrcDict(<< <<<<"c">>, SrcNum(2)>> >>)>>, <<<<"d">>, SrcNum(3)>> >>),
      SrcDict(<< <<<<"s">>, SrcStr(<<"a", "{", "b", "}", "c">>)>> >>),
      SrcDict(<< <<<<"s">>, SrcStr(<<"x", ",", "}">>)>> >>),
      SrcDict(<< <<<<"s">>, SrcStr(<<"q", "\"", "z", ",", " ", "]">>)>> >>),
      SrcDict(<< <<<<"l">>, SrcList(<<SrcNum(1), SrcNum(2)>>)>> >>),
      SrcDict(<< <<<<"s">>, SrcStr(<<"\"", "}", "{">>)>> >>),
      SrcDict(<<>>) }

Prose == <<"H", "e", "r", "e", ":">>

JsonFence == Fence \o <<"j", "s", "o", "n">>

Wrappings == {"none", "fence", "plainfence", "prose", "prosefence", "comma", "commas"}

\* the text an object reaches extract_json as, under each wrapping
Wrap(x, w) ==
    CASE w = "none"       -> Dumps(x, 0)
      [] w = "fence"      -> JsonFence \o <<"\n">> \o Dumps(x, 0) \o <<"\n">> \o Fence
      [] w = "plainfence" -> Fence \o <<"\n">> \o Dumps(x, 0) \o <<"\n">> \o Fence
      [] w = "prose"      -> Prose \o <<" ">> \o Dumps(x, 0)
      [] w = "prosefence" -> Prose \o <<"\n">> \o JsonFence \o <<"\n">> \o Dumps(x, 0)
                               \o <<"\n">> \o Fence
      [] w = "comma"      -> Dumps(x, 1)
      [] OTHER            -> Dumps(x, 2)

\* what stands between two objects that follow one another in a response
Separators ==
    { <<>>, <<" ">>, <<"\n">>, <<"\n", "\n">>, <<" ", "a", "n", "d", " ">>,
      <<"\n", "a", "n", "d", "\n">> }

\* no script: the value of a script variable that is not bound
NoScript == [title |-> JNone, bullets |-> <<>>, narration_parts |-> <<>>, narration |-> <<>>]

NoResult == [exc |-> FALSE, val |-> NoScript]

\* generate_script is not running
SaIdle ==
    /\ saSection = [title |-> <<>>, summary |-> <<>>]
    /\ saEnv = {}
    /\ saMaxRetries = 0
    /\ saPc = "idle"
    /\ saAttempt = 0
    /\ saCtx = "main"
    /\ saRewrites = 0
    /\ saScript = NoScript
    /\ saResult = NoResult

\* the helpers of LLMClient are not running
LcIdle ==
    /\ lcParts = <<>>
    /\ lcTopic = <<>>
    /\ lcPc = "idle"
    /\ lcFixed = <<>>

\* check_scripts_quality is not running
QaIdle ==
    /\ qaScripts = <<>>
    /\ qaPc = "idle"
    /\ qaResult = [passed |-> FALSE, issues |-> <<>>, rate |-> [num |-> 0, den |-> 1]]

\* the helpers of a client with providers are not running
PvIdle ==
    /\ pvKeys = {}
    /\ pvParts = <<>>
    /\ pvTopic = <<>>
    /\ pvPc = "idle"
    /\ pvFixed = <<>>
    /\ pvTxt = [exc |-> FALSE, val |-> <<>>]
    /\ pvAsked = 0

\* no retry loop is followed for its temperatures
TpIdle ==
    /\ tpLoop = "none"
    /\ tpMaxRetries = 0
    /\ tpAttempt = 0
    /\ tpPc = "idle"
    /\ tpTemperature = 0

\* no report of the QA agent yet: None
WfNoReport ==
    [scripts_passed |-> FALSE, scripts_issues |-> <<>>, slides_passed |-> FALSE,
     slides_issues |-> <<>>, overall_passed |-> FALSE, round |-> 0]

\* lines 43-51: self.state of a fresh workflow
WfFreshState ==
    [scripts |-> <<>>, slides |-> <<>>, qa_report |-> WfNoReport, total_tokens |-> 0]

\* base.py line 22: total_tokens of the three agents of a fresh workflow
WfFreshAgents == [orchestrator |-> 0, script_agent |-> 0, slide_agent |-> 0]

\* run has returned nothing yet
WfNoResult ==
    [scripts |-> <<>>, slides |-> <<>>, qa_report |-> WfNoReport,
     meta |-> [total_tokens |-> 0, orchestrator_tokens |-> 0, script_agent_tokens |-> 0,
               slide_agent_tokens |-> 0]]

\* A2AWorkflow.run is not running
WfIdle ==
    /\ wfMaxQaRetries = 0
    /\ wfSections = 0
    /\ wfPc = "idle"
    /\ wfAttempt = 0
    /\ wfScripts = <<>>
    /\ wfSlides = <<>>
    /\ wfState = WfFreshState
    /\ wfAgents = WfFreshAgents
    /\ wfRounds = 0
    /\ wfResult = WfNoResult

\* no thread runs generate_script
CcIdle ==
    /\ ccTokens = 0
    /\ ccCost = 0
    /\ ccThreads = <<>>

\* analyze_paper has no result yet
OrNoResult == [exc |-> FALSE, val |-> [sections |-> <<>>]]

\* analyze_paper is not running
OrIdle ==
    /\ orMaxRetries = 0
    /\ orPc = "idle"
    /\ orAttempt = 0
    /\ orTokens = <<0, 0>>
    /\ orResult = OrNoResult

RawTexts == UNION {[1..n -> ExAlphabet] : n \in 0..ExMaxLen}

ExInit ==
    /\ SaIdle
    /\ LcIdle
    /\ QaIdle
    /\ OrIdle
    /\ PvIdle
    /\ TpIdle
    /\ WfIdle
    /\ CcIdle
    /\ exPc = "call"
    /\ exRes = Returned(JNone)
    /\ \/ /\ exWrap = "raw"
          /\ exObjs = <<>>
          /\ exText \in RawTexts
       \/ /\ exWrap \in Wrappings
          /\ \E x \in ExObjects : exObjs = <<x>> /\ exText = Wrap(x, exWrap)
       \/ /\ exWrap = "several"
          /\ \E x \in ExObjects, y \in ExObjects, sep \in Separators, lead \in {<<>>, Prose \o <<" ">>} :
                /\ exObjs = <<x, y>>
                /\ exText = lead \o Dumps(x, 0) \o sep \o Dumps(y, 0)

\* data = self.extract_json(text)
ExtractJson ==
    /\ exPc = "call"
    /\ exRes' = extract_json(exText)
    /\ exPc' = "done"
    /\ UNCHANGED <<exText, exWrap, exObjs>>
    /\ UNCHANGED <<saVars, lcVars, qaVars, orVars, pvVars, tpVars, wfVars, ccVars>>

ExNext == ExtractJson

SpecExtract == ExInit /\ [][ExNext]_vars

(***************************************************************************)
(* Claims about extract_json, checked under SpecExtract                    *)
(***************************************************************************)

\* C7: extract_json returns None for the empty text and, for every text
\* whatsoever, returns (a value or None) without raising an exception.
C7_NeverRaises ==
    exPc = "done" => /\ ~exRes.exc
                     /\ (Len(exText) = 0 => exRes.val = JNone)

\* C7 witness: the call has returned None for a text with an unbalanced
\* brace and an unterminated string, and for a stray fence
C7_Witness ==
    /\ exPc = "done"
    /\ exText \in {<<"{", "\"", "a">>, <<BT, BT, BT>>}
    /\ exRes = Returned(JNone)

\* C8 (as claimed): the value extract_json returns is a dict or None
C8_DictOrNone == exPc = "done" => exRes.val.t \in {"dict", "None"}

\* C9 (as claimed): extract_json of a wrapped serialisation of an object
\* returns that object
C9_RoundTrip ==
    (exPc = "done" /\ exWrap \in Wrappings) => exRes = Returned(Value(exObjs[1]))

\* C10 (as claimed): of several objects that follow one another in the text,
\* extract_json returns the first
C10_FirstObject ==
    (exPc = "done" /\ exWrap = "several") => exRes = Returned(Value(exObjs[1]))

\* are the characters of s up to position j, read from the start, an open
\* string (q[1]) and is the next character escaped (q[2])
QuoteStep(q, ch) ==
    IF q[1]
    THEN IF q[2] THEN <<TRUE, FALSE>>
         ELSE IF ch = "\\" THEN <<TRUE, TRUE>>
         ELSE IF ch = "\"" THEN <<FALSE, FALSE>>
         ELSE q
    ELSE IF ch = "\"" THEN <<TRUE, FALSE>> ELSE q

RECURSIVE QuoteState(_, _)
QuoteState(s, j) == IF j = 0 THEN <<FALSE, FALSE>> ELSE QuoteStep(QuoteState(s, j - 1), s[j])

\* the positions of lo..hi that hold the brace b outside every string
Braces(s, lo, hi, b) == {j \in lo..hi : s[j] = b /\ ~QuoteState(s, j - 1)[1]}

\* lo..hi is balanced: as many braces open as close outside strings
Balanced(s, lo, hi) ==
    Cardinality(Braces(s, lo, hi, "{")) = Cardinality(Braces(s, lo, hi, "}"))

\* the span from the first brace that opens outside a string to the first
\* closing brace after it that balances it
FirstBalanced(s, opens) ==
    IF opens = {} THEN NoSpan
    ELSE IF \E hi \in Braces(s, Min(opens), Len(s), "}") : Balanced(s, Min(opens), hi)
         THEN Span(Min(opens),
                   Min({hi \in Braces(s, Min(opens), Len(s), "}") : Balanced(s, Min(opens), hi)}))
         ELSE NoSpan

\* the object of the document has a brace inside a string value
BraceInString == exObjs[1] \in {x \in ExObjects : \E k \in 1..Len(x.items) :
                     x.items[k][2].t = "str"
                       /\ \E m \in 1..Len(x.items[k][2].s) : x.items[k][2].s[m] \in {"{", "}"}}

\* the text the scanner returns for the span it found
Scanned(s, span) == IF span.found THEN SubSeq(s, span.lo, span.hi) ELSE <<>>

\* C11: in scan_first_object a brace inside a double-quoted string (an
\* escaped quote does not end the string) does not change the depth, and the
\* span returned runs from the first top-level opening brace to the closing
\* brace that brings the depth back to 0; an object with braces in a string
\* value, after prose, is scanned whole and parses to the original object.
C11_ScannerStringAware ==
    /\ scan_first_object(Cleaned(exText))
         = FirstBalanced(Cleaned(exText), Braces(Cleaned(exText), 1, Len(Cleaned(exText)), "{"))
    /\ (exWrap = "prose" /\ BraceInString) =>
         /\ Scanned(Cleaned(exText), scan_first_object(Cleaned(exText))) = Dumps(exObjs[1], 0)
         /\ json_loads(Scanned(Cleaned(exText), scan_first_object(Cleaned(exText))))
              = Returned(Value(exObjs[1]))

\* C11, its case: extract_json has run on prose followed by an object whose
\* string value holds an escaped quote and two braces, and the scanner gives
\* the object
C11_Witness ==
    /\ exPc = "done"
    /\ exWrap = "prose"
    /\ exObjs[1] = SrcDict(<< <<<<"s">>, SrcStr(<<"\"", "}", "{">>)>> >>)
    /\ scan_first_object(Cleaned(exText)).found

(***************************************************************************)
(* ScriptAgent (src/agents/script_agent.py).  Texts are sequences of       *)
(* characters as above; a character outside ASCII is named by its code     *)
(* point, "u4E2D" for U+4E2D.  A float that the code computes as a         *)
(* quotient of two counts is kept as the pair of the counts, and compared  *)
(* with the code's decimal thresholds exactly.                             *)
(***************************************************************************)
AsciiLetters ==
    { "A", "B", "C", "D", "E", "F", "G", "H", "I", "J", "K", "L", "M",
      "N", "O", "P", "Q", "R", "S", "T", "U", "V", "W", "X", "Y", "Z",
      "a", "b", "c", "d", "e", "f", "g", "h", "i", "j", "k", "l", "m",
      "n", "o", "p", "q", "r", "s", "t", "u", "v", "w", "x", "y", "z" }

\* the characters c of this model with '\u4e00' <= c <= '\u9fff'
Cjk ==
    { "u4E00", "u4E03", "u4E09", "u4E0A", "u4E0B", "u4E0D", "u4E0E", "u4E13", "u4E14",
      "u4E16", "u4E1A", "u4E1C", "u4E24", "u4E2A", "u4E2D", "u4E34", "u4E3A", "u4E3B",
      "u4E49", "u4E4B", "u4E50", "u4E5D", "u4E5F", "u4E86", "u4E8B", "u4E9B", "u4EA4",
      "u4ECB", "u4ECE", "u4EE5", "u4EEC", "u4EF6", "u4EF7", "u4EFB", "u4F18", "u4F20",
      "u4F30", "u4F4D", "u4F55", "u4F5C", "u4F73", "u4F7F", "u4F8B", "u4F9B", "u503C",
      "u505A", "u5148", "u514D", "u5165", "u5168", "u5173", "u5176", "u5178", "u5185",
      "u51FA", "u5206", "u5217", "u522B", "u5236", "u524D", "u529B", "u52A1", "u52A3",
      "u52A8", "u52A9", "u52BF", "u5305", "u5316", "u5341", "u5357", "u539F", "u53C2",
      "u53C9", "u53CA", "u53D1", "u53D6", "u53D8", "u53D9", "u53EF", "u5408", "u540C",
      "u540E", "u5411", "u542B", "u548C", "u55BB", "u5668", "u56DE", "u56F4", "u56FE",
      "u5728", "u5730", "u573A", "u578B", "u57DF", "u57FA", "u5916", "u5927", "u5957",
      "u5B66", "u5B83", "u5B8C", "u5B9A", "u5B9E", "u5BB9", "u5BDF", "u5BF9", "u5C06",
      "u5C40", "u5C42", "u5C55", "u5DE5", "u5DE7", "u5DEE", "u5E2E", "u5E38", "u5E76",
      "u5E7F", "u5E8F", "u5E94", "u5EA6", "u5EFA", "u5F00", "u5F02", "u5F15", "u5F3A",
      "u5F53", "u5F62", "u5F84", "u5F97", "u5FC3", "u5FC5", "u5FF5", "u601D", "u6027",
      "u603B", "u60F3", "u610F", "u6210", "u6211", "u6218", "u6280", "u628A", "u62EC",
      "u6307", "u6311", "u636E", "u63A2", "u63A5", "u63D0", "u642C", "u64CD", "u6539",
      "u653E", "u6548", "u6559", "u6570", "u6574", "u6587", "u65AD", "u65B0", "u65B9",
      "u65E0", "u65F6", "u660E", "u663E", "u666F", "u6670", "u6700", "u671B", "u671F",
      "u672A", "u672C", "u672F", "u673A", "u6761", "u6765", "u6784", "u6790", "u679C",
      "u67B6", "u6807", "u6838", "u6839", "u6846", "u6848", "u68B3", "u6982", "u6A21",
      "u6B64", "u6B65", "u6BD4", "u6C42", "u6CD5", "u6CDB", "u6CE8", "u6D1E", "u6DF1",
      "u6E05", "u6F5C", "u70B9", "u70BC", "u72B6", "u73B0", "u7406", "u74F6", "u751F",
      "u7528", "u7531", "u7565", "u7684", "u76F4", "u76F8", "u770B", "u771F", "u77E5",
      "u7801", "u7814", "u7834", "u7840", "u786C", "u786E", "u79CD", "u79D1", "u7A0B",
      "u7A76", "u7A7A", "u7A81", "u7ACB", "u7B49", "u7B56", "u7B97", "u7CFB", "u7EBF",
      "u7EC3", "u7EC4", "u7EC6", "u7ECD", "u7ECF", "u7ED3", "u7ED5", "u7ED9", "u7EDC",
      "u7EDF", "u7EE7", "u7EED", "u7EF4", "u7F16", "u7F3A", "u7F6E", "u8003", "u8005",
      "u8054", "u80CC", "u80FD", "u8109", "u820D", "u8282", "u843D", "u878D", "u884C",
      "u8868", "u8981", "u89C1", "u89C2", "u89C6", "u89D2", "u89E3", "u8A00", "u8BA1",
      "u8BA4", "u8BA8", "u8BA9", "u8BAD", "u8BAE", "u8BB2", "u8BBA", "u8BBE", "u8BC4",
      "u8BC6", "u8BCA", "u8BD5", "u8BE5", "u8BE6", "u8BED", "u8BF4", "u8BFB", "u8C03",
      "u8C31", "u8D2F", "u8DE8", "u8DEF", "u8DF5", "u8F93", "u8FC7", "u8FD8", "u8FD9",
      "u8FDB", "u8FDE", "u8FF0", "u9002", "u9010", "u901A", "u9047", "u907F", "u90E8",
      "u91CA", "u91CD", "u91CF", "u952E", "u957F", "u95EE", "u95F4", "u9610", "u9631",
      "u9645", "u9650", "u9669", "u9677", "u96C6", "u9762", "u9879", "u987E", "u9886",
      "u9888", "u9898", "u98CE", "u9996", "u9A8C", "u9AA4", "u9AD8" }

\* sum(1 for c in s if c in cls)
Count(s, cls) == Len(SelectSeq(s, LAMBDA c : c \in cls))

\* the text of n characters c
Rep(c, n) == [k \in 1..n |-> c]

\* s[:n]
Take(s, n) == IF Len(s) <= n THEN s ELSE SubSeq(s, 1, n)

\* max(1, n)
Max1(n) == IF n < 1 THEN 1 ELSE n

\* the float n / d
Ratio(n, d) == [num |-> n, den |-> d]

\* r < p / q and r > p / q, for a ratio r and the decimal p / q
RatioLt(r, p, q) == r.num * q < p * r.den

RatioGt(r, p, q) == r.num * q > p * r.den

RECURSIVE JoinFrom(_, _, _)
JoinFrom(parts, sep, k) ==
    IF k > Len(parts) THEN <<>>
    ELSE (IF k > 1 THEN sep ELSE <<>>) \o parts[k] \o JoinFrom(parts, sep, k + 1)

\* sep.join(parts)
Join(parts, sep) == JoinFrom(parts, sep, 1)

\* the paragraph separator of narration
ParagraphSep == <<"\n", "\n">>

DecimalDigit == <<"0", "1", "2", "3", "4", "5", "6", "7", "8", "9">>

RECURSIVE NatText(_)
NatText(n) == IF n < 10 THEN <<DecimalDigit[n + 1]>>
              ELSE NatText(n \div 10) \o <<DecimalDigit[(n % 10) + 1]>>

\* str(x) for the values a response's lists hold here: strings, integers,
\* None and booleans
PyStr(x) ==
    CASE x.t = "str"  -> x.v
      [] x.t = "int"  -> IF x.v < 0 THEN <<"-">> \o NatText(0 - x.v) ELSE NatText(x.v)
      [] x.t = "None" -> <<"N", "o", "n", "e">>
      [] x.t = "bool" -> IF x.v THEN <<"T", "r", "u", "e">> ELSE <<"F", "a", "l", "s", "e">>

\* [str(b) for b in items]
StrAll(items) == [k \in 1..Len(items) |-> PyStr(items[k])]

\* d.get(key, default) for a dict d
Get(d, key, default) == IF key \in DOMAIN d.v THEN d.v[key] ELSE default

\* v or []
OrEmptyList(v) == IF Truthy(v) THEN v ELSE JList(<<>>)

\* v or {}
OrEmptyDict(v) == IF Truthy(v) THEN v ELSE EmptyDict

\* the values `for b in v` goes through, for a truthy v or []: the elements
\* of a list, the characters of a string; a number is not iterable
Iterate(v) ==
    CASE v.t = "list" -> Returned(v.v)
      [] v.t = "str"  -> Returned([k \in 1..Len(v.v) |-> JStr(<<v.v[k]>>)])
      [] v.t \in {"int", "bool"} -> Raised

\* ScriptAgent._chinese_ratio, for the combined text
ChineseRatioOf(combined) ==
    Ratio(Count(combined, Cjk), Max1(Count(combined, Cjk) + Count(combined, AsciiLetters)))

\* ScriptAgent._chinese_ratio(texts)
_chinese_ratio(texts) ==
    IF Len(texts) = 0 THEN Ratio(0, 1) ELSE ChineseRatioOf(Join(texts, <<>>))

\* the fillers of _expand_narration (lines 308-317)
Fillers(topic) ==
    << <<"u6211", "u4EEC", "u9996", "u5148", "u4ECE">>
       \o topic
       \o <<"u7684", "u6838", "u5FC3", "u6982", "u5FF5", "u4E0E", "u5B9A", "u4E49",
         "u51FA", "u53D1", "uFF0C", "u68B3", "u7406", "u8BE5", "u9886", "u57DF",
         "u7684", "u53D1", "u5C55", "u8109", "u7EDC", "u4E0E", "u7814", "u7A76",
         "u73B0", "u72B6", "uFF0C", "u660E", "u786E", "u5F53", "u524D", "u9762",
         "u4E34", "u7684", "u4E3B", "u8981", "u6311", "u6218", "u4E0E", "u74F6",
         "u9888", "u3002">>,
       <<"u63A5", "u4E0B", "u6765", "u6DF1", "u5165", "u5206", "u6790">>
       \o topic
       \o <<"u7684", "u6280", "u672F", "u539F", "u7406", "u4E0E", "u5B9E", "u73B0",
         "u7EC6", "u8282", "uFF0C", "u5BF9", "u6BD4", "u4E0D", "u540C", "u65B9",
         "u6CD5", "u7684", "u4F18", "u52A3", "u52BF", "uFF0C", "u603B", "u7ED3",
         "u6700", "u4F73", "u5B9E", "u8DF5", "u4E0E", "u5E38", "u89C1", "u9677",
         "u9631", "u3002">>,
       <<"u5728", "u7406", "u8BBA", "u57FA", "u7840", "u65B9", "u9762", "uFF0C",
         "u6211", "u4EEC", "u63A2", "u8BA8">>
       \o topic
       \o <<"u80CC", "u540E", "u7684", "u6570", "u5B66", "u539F", "u7406", "u4E0E",
         "u7B97", "u6CD5", "u601D", "u60F3", "uFF0C", "u5EFA", "u7ACB", "u7CFB",
         "u7EDF", "u5316", "u7684", "u77E5", "u8BC6", "u6846", "u67B6", "u4E0E",
         "u601D", "u7EF4", "u6A21", "u578B", "u3002">>,
       <<"u4ECE", "u5E94", "u7528", "u89D2", "u5EA6", "u770B", "uFF0C">>
       \o topic
       \o <<"u5728", "u5B9E", "u9645", "u573A", "u666F", "u4E2D", "u5C55", "u73B0",
         "u51FA", "u5E7F", "u6CDB", "u7684", "u4EF7", "u503C", "uFF0C", "u6211",
         "u4EEC", "u901A", "u8FC7", "u5178", "u578B", "u6848", "u4F8B", "u5206",
         "u6790", "u5176", "u843D", "u5730", "u8DEF", "u5F84", "u4E0E", "u6548",
         "u679C", "u8BC4", "u4F30", "u3002">>,
       <<"u540C", "u65F6", "u5173", "u6CE8">>
       \o topic
       \o <<"u7684", "u5C40", "u9650", "u6027", "u4E0E", "u6539", "u8FDB", "u7A7A",
         "u95F4", "uFF0C", "u8BA8", "u8BBA", "u672A", "u6765", "u53D1", "u5C55",
         "u65B9", "u5411", "u4E0E", "u6F5C", "u5728", "u7A81", "u7834", "u70B9",
         "uFF0C", "u4E3A", "u540E", "u7EED", "u7814", "u7A76", "u63D0", "u4F9B",
         "u53C2", "u8003", "u3002">>,
       <<"u5728", "u5DE5", "u7A0B", "u5B9E", "u8DF5", "u5C42", "u9762", "uFF0C",
         "u6211", "u4EEC", "u603B", "u7ED3">>
       \o topic
       \o <<"u7684", "u5B9E", "u73B0", "u8981", "u70B9", "u3001", "u6027", "u80FD",
         "u4F18", "u5316", "u7B56", "u7565", "u4E0E", "u8C03", "u8BD5", "u6280",
         "u5DE7", "uFF0C", "u5F62", "u6210", "u53EF", "u64CD", "u4F5C", "u7684",
         "u6280", "u672F", "u6307", "u5357", "u3002">>,
       <<"u6B64", "u5916", "uFF0C">>
       \o topic
       \o <<"u4E0E", "u76F8", "u5173", "u9886", "u57DF", "u7684", "u4EA4", "u53C9",
         "u878D", "u5408", "u4E5F", "u503C", "u5F97", "u5173", "u6CE8", "uFF0C",
         "u6211", "u4EEC", "u63A2", "u8BA8", "u8DE8", "u5B66", "u79D1", "u5408",
         "u4F5C", "u7684", "u673A", "u9047", "u4E0E", "u6311", "u6218", "u3002">>,
       <<"u6700", "u540E", "uFF0C", "u6211", "u4EEC", "u5BF9">>
       \o topic
       \o <<"u7684", "u7814", "u7A76", "u6210", "u679C", "u8FDB", "u884C", "u7CFB",
         "u7EDF", "u6027", "u56DE", "u987E", "uFF0C", "u63D0", "u70BC", "u5173",
         "u952E", "u6D1E", "u5BDF", "u4E0E", "u7ECF", "u9A8C", "u6559", "u8BAD",
         "uFF0C", "u4E3A", "u8BFB", "u8005", "u63D0", "u4F9B", "u5168", "u9762",
         "u7684", "u77E5", "u8BC6", "u56FE", "u8C31", "u3002">> >>

\* line 305: the text that replaces a text of less than 50 characters
ExpandSeed(topic) ==
    <<"u672C", "u90E8", "u5206", "u56F4", "u7ED5">>
    \o topic
    \o <<"u5C55", "u5F00", "u8BE6", "u7EC6", "u8BA8", "u8BBA", "u3002">>

RECURSIVE ExpandLoop(_, _, _, _)
\* lines 319-323: while len(result) < min_len and i < 20
ExpandLoop(result, i, fillers, min_len) ==
    IF Len(result) < min_len /\ i < 20
    THEN ExpandLoop(result \o fillers[(i % Len(fillers)) + 1], i + 1, fillers, min_len)
    ELSE result

\* _expand_narration without its first test: the text is returned as it is
\* however short it is
NoExpandNarration(text, topic, min_len) == text

\* ScriptAgent._expand_narration(text, topic, min_len)
_expand_narration(text, topic, min_len) ==
    IF Len(text) >= min_len THEN text
    ELSE Take(ExpandLoop(IF Len(text) < 50 THEN ExpandSeed(topic) ELSE text,
                         0, Fillers(topic), min_len),
              8000)

\* a script: the dict that _validate_and_repair builds (lines 212-217)
MakeScript(title, bullets, narration_parts) ==
    [ title           |-> title,
      bullets         |-> bullets,
      narration_parts |-> narration_parts,
      narration       |-> Join(narration_parts, ParagraphSep) ]

RECURSIVE PadBullets(_)
\* lines 208-209: while len(bullets) < 3, append the bullet numbered len + 1
PadBullets(bullets) ==
    IF Len(bullets) < 3
    THEN PadBullets(Append(bullets, <<"u8981", "u70B9">> \o NatText(Len(bullets) + 1)))
    ELSE bullets

\* lines 203-217, for what iterating over the two lists of data gave
RepairedScript(title, bullets, narration_parts) ==
    IF bullets.exc \/ narration_parts.exc THEN Raised
    ELSE Returned(MakeScript(title,
                             Take(PadBullets(Take(StrAll(bullets.val), 5)), 5),
                             Take(StrAll(narration_parts.val), 2)))

\* ScriptAgent._validate_and_repair(data, section_title): the script, or the
\* exception of data.get for a data that is no dict and of a list that
\* cannot be iterated
_validate_and_repair(data, section_title) ==
    IF data.t # "dict" THEN Raised
    ELSE RepairedScript(Get(data, <<"t", "i", "t", "l", "e">>, JStr(section_title)),
                        Iterate(OrEmptyList(Get(data, <<"b", "u", "l", "l", "e", "t", "s">>, JList(<<>>)))),
                        Iterate(OrEmptyList(Get(data, <<"n", "a", "r", "r", "a", "t",
                                                        "i", "o", "n", "_", "p", "a",
                                                        "r", "t", "s">>, JList(<<>>)))))

\* ScriptAgent._check_quality(script)
_check_quality(script) ==
    /\ Len(script.narration_parts) >= 2
    /\ \A k \in 1..Len(script.narration_parts) : Len(script.narration_parts[k]) >= 600
    /\ ~RatioLt(_chinese_ratio(script.narration_parts), 9, 10)

\* the bullets of _heuristic_fallback (lines 361-367)
FallbackBullets(title) ==
    << title
       \o <<"u7684", "u6838", "u5FC3", "u6982", "u5FF5", "u4E0E", "u5B9A", "u4E49">>,
       title
       \o <<"u7684", "u4E3B", "u8981", "u65B9", "u6CD5", "u4E0E", "u6280", "u672F",
         "u8DEF", "u7EBF">>,
       title
       \o <<"u7684", "u5B9E", "u9A8C", "u8BBE", "u7F6E", "u4E0E", "u8BC4", "u4F30",
         "u6307", "u6807">>,
       title
       \o <<"u7684", "u5173", "u952E", "u7ED3", "u679C", "u4E0E", "u53D1", "u73B0">>,
       title
       \o <<"u7684", "u5C40", "u9650", "u6027", "u4E0E", "u672A", "u6765", "u65B9",
         "u5411">> >>

\* lines 370-371: the two parts of the fallback
FallbackParts(title, summary) ==
    << _expand_narration(<<"u672C", "u90E8", "u5206", "u56F4", "u7ED5">>
                         \o title
                         \o <<"u5C55", "u5F00", "u3002">>
                         \o summary, title, 600),
       _expand_narration(<<"u7EE7", "u7EED", "u8BA8", "u8BBA">>
                         \o title
                         \o <<"u7684", "u7EC6", "u8282", "u3002">>
                         \o summary, title, 600) >>

\* the meta of the fallback (lines 378-385)
FallbackMeta == [attempt |-> 0, zh_ratio |-> Ratio(1, 1), fallback |-> TRUE]

\* lines 373-386: the dict returned, for the two parts
FallbackScript(title, parts) ==
    [ title           |-> JStr(title),
      bullets         |-> Take(FallbackBullets(title), 5),
      narration_parts |-> parts,
      narration       |-> parts[1] \o ParagraphSep \o parts[2],
      meta            |-> FallbackMeta ]

\* ScriptAgent._heuristic_fallback(section, paper_context)
_heuristic_fallback(title, summary) == FallbackScript(title, FallbackParts(title, summary))

\* _shingles(s) of _post_process: the 3-grams of s without its whitespace
Grams(s2) == {SubSeq(s2, i, i + 2) : i \in 1..(Len(s2) - 2)}

_shingles(s) == Grams(SelectSeq(s, LAMBDA c : c \notin ReWs))

\* len(a & b) / max(1, len(a | b)) if a and b, else the initial 0.0
Jaccard(a, b) ==
    IF a # {} /\ b # {} THEN Ratio(Cardinality(a \cap b), Max1(Cardinality(a \cup b)))
    ELSE Ratio(0, 1)

\* lines 233-237: sim
Similarity(parts) ==
    IF Len(parts) >= 2 THEN Jaccard(_shingles(parts[1]), _shingles(parts[2]))
    ELSE Ratio(0, 1)

\* lines 224-226 and 272-274: letters_ascii / max(1, letters_ascii + cjk)
RatioEn(combined) ==
    Ratio(Count(combined, AsciiLetters),
          Max1(Count(combined, AsciiLetters) + Count(combined, Cjk)))

\* need_rewrite without the similarity of the two parts
NeedRewriteNoSimilarity(parts) ==
    \/ RatioGt(RatioEn(Join(parts, <<>>)), 2, 100)
    \/ RatioLt(_chinese_ratio(parts), 95, 100)

\* line 239: need_rewrite
need_rewrite(parts) ==
    \/ RatioGt(RatioEn(Join(parts, <<>>)), 2, 100)
    \/ RatioLt(_chinese_ratio(parts), 95, 100)
    \/ RatioGt(Similarity(parts), 10, 100)

\* lines 267-268: new_parts, or the exception of data.get for a data that
\* is no dict and of a value that cannot be iterated
NewParts(data) ==
    IF data.t # "dict" THEN Raised
    ELSE Iterate(OrEmptyList(Get(data, <<"n", "a", "r", "r", "a", "t", "i", "o", "n",
                                         "_", "p", "a", "r", "t", "s">>, JNone)))

\* lines 269-275: the gate of a rewrite
RewriteOk(new_parts) ==
    /\ Len(new_parts) = 2
    /\ \A k \in 1..Len(new_parts) : Len(new_parts[k]) >= 600
    /\ ~RatioLt(_chinese_ratio(new_parts), 95, 100)
    /\ ~RatioGt(RatioEn(Join(new_parts, <<>>)), 2, 100)

\* the rewrite that replaces the parts and leaves narration as it was
RewrittenStale(script, new_parts) == [script EXCEPT !.narration_parts = new_parts]

\* lines 276-277: script with the rewritten parts
Rewritten(script, new_parts) ==
    [script EXCEPT !.narration_parts = new_parts,
                   !.narration = Join(new_parts, ParagraphSep)]

\* lines 288-290: one part without its ASCII letters, expanded when short
FixedPart(p2, topic) == IF Len(p2) < 600 THEN _expand_narration(p2, topic, 600) ELSE p2

\* lines 285-293: fixed
Fixed(parts, topic) ==
    [k \in 1..2 |->
        IF k <= Len(parts)
        THEN FixedPart(SelectSeq(parts[k], LAMBDA c : c \notin AsciiLetters), topic)
        ELSE _expand_narration(<<>>, topic, 600)]

\* lines 284-296: the last resort of _post_process
LastResort(script, topic) == Rewritten(script, Take(Fixed(script.narration_parts, topic), 2))

(***************************************************************************)
(* ScriptAgent.generate_script as a state machine.  The agent stops at     *)
(* each call of self.call_llm; a step is the call's outcome, a response or *)
(* an exception, and all the code that runs until the next call or the     *)
(* return.  The responses are those of SaResponses.                        *)
(***************************************************************************)
SaMaxRetries == 2

ZhA == Rep("u4E2D", 600)

ZhB == Rep("u6587", 600)

\* two parts of exactly 600 characters, 540 of them Chinese and 60 Latin
\* letters: the Chinese ratio of each, and of both, is exactly 0.9
BoundaryA == Rep("u4E2D", 540) \o Rep("a", 60)

BoundaryB == Rep("u6587", 540) \o Rep("b", 60)

SrcTexts(q) == [k \in 1..Len(q) |-> SrcStr(q[k])]

SrcScript(title, bullets, parts) ==
    SrcDict(<< <<<<"t", "i", "t", "l", "e">>, SrcStr(title)>>,
               <<<<"b", "u", "l", "l", "e", "t", "s">>, SrcList(SrcTexts(bullets))>>,
               <<<<"n", "a", "r", "r", "a", "t", "i", "o", "n", "_", "p", "a", "r",
                   "t", "s">>, SrcList(SrcTexts(parts))>> >>)

SrcNarration(parts) == SrcDict(<< <<<<"n", "a", "r", "r", "a", "t", "i", "o", "n", "_",
                                      "p", "a", "r", "t", "s">>, SrcList(SrcTexts(parts))>> >>)

ThreeBullets == <<<<"u80CC", "u666F">>, <<"u65B9", "u6CD5">>, <<"u7ED3", "u679C">>>>

\* the texts call_llm returns
SaResponses ==
    << \* a complete script inside a json fence
       JsonFence \o <<"\n">> \o Dumps(SrcScript(<<"u6CE8", "u610F", "u529B">>, ThreeBullets, <<ZhA, ZhB>>), 0)
         \o <<"\n">> \o Fence,
       \* two parts that are too short
       Dumps(SrcScript(<<"u6CE8", "u610F", "u529B">>, ThreeBullets, <<Rep("u4E2D", 10), Rep("u6587", 10)>>), 0),
       \* a first part that is short once its English letters are gone
       Dumps(SrcScript(<<"u6CE8", "u610F", "u529B">>, ThreeBullets, <<Rep("u4E2D", 560) \o Rep("a", 40), ZhB>>), 0),
       \* nothing but a title
       Dumps(SrcDict(<< <<<<"t", "i", "t", "l", "e">>, SrcStr(<<"u6CE8", "u610F",
                                                                "u529B">>)>> >>), 0),
       \* no JSON
       <<"S", "o", "r", "r", "y", ",", " ", "I", " ", "c", "a", "n", "n", "o", "t",
         " ", "h", "e", "l", "p", " ", "w", "i", "t", "h", " ", "t", "h", "a", "t",
         ".">>,
       \* the empty text
       <<>>,
       \* a JSON list
       Dumps(SrcList(<<SrcNum(1), SrcNum(2)>>), 0),
       \* the two parts alone, as a rewrite is asked to give them
       Dumps(SrcNarration(<<ZhA, ZhB>>), 0),
       \* six bullets and three parts
       Dumps(SrcScript(<<"u6CE8", "u610F", "u529B">>, ThreeBullets \o ThreeBullets, <<ZhA, ZhB, ZhA>>), 0),
       \* the same part twice
       Dumps(SrcNarration(<<ZhA, ZhA>>), 0),
       \* bullets that are a number
       Dumps(SrcDict(<< <<<<"b", "u", "l", "l", "e", "t", "s">>, SrcNum(7)>>,
                        <<<<"n", "a", "r", "r", "a", "t", "i", "o", "n", "_", "p", "a",
                            "r", "t", "s">>, SrcList(SrcTexts(<<ZhA, ZhB>>))>> >>), 0),
       \* bullets that are one string
       Dumps(SrcDict(<< <<<<"b", "u", "l", "l", "e", "t", "s">>, SrcStr(<<"a", "b">>)>>,
                        <<<<"n", "a", "r", "r", "a", "t", "i", "o", "n", "_", "p", "a",
                            "r", "t", "s">>, SrcList(SrcTexts(<<ZhA, ZhB>>))>> >>), 0),
       \* two parts at the boundary of the length and ratio gates
       Dumps(SrcScript(<<"u6CE8", "u610F", "u529B">>, ThreeBullets, <<BoundaryA, BoundaryB>>), 0),
       \* an empty object
       Dumps(SrcDict(<<>>), 0) >>

\* self.extract_json(response), for each response
SaExtracted == [r \in DOMAIN SaResponses |-> extract_json(SaResponses[r])]

\* the outcomes of a call of self.call_llm: an exception, or a response
LlmOutcomes ==
    {[exc |-> TRUE, val |-> 0]} \cup {[exc |-> FALSE, val |-> r] : r \in DOMAIN SaResponses}

\* the outcome of call_llm followed by extract_json
CallThenExtract(out) == IF out.exc THEN Raised ELSE SaExtracted[out.val]

\* the sections generate_script is called for
SaSections ==
    { [title |-> <<"M", "e", "t", "h", "o", "d">>, summary |-> <<>>],
      [title |-> <<"u65B9", "u6CD5">>, summary |-> <<"u672C", "u8282", "u4ECB",
                                                     "u7ECD", "u6A21", "u578B",
                                                     "u7684", "u7ED3", "u6784",
                                                     "u3002">>],
      [title |-> <<"u65B9", "u6CD5">>, summary |-> Rep("a", 700)] }

\* the provider keys of the environment that are set
SaEnvs ==
    { {}, {"GOOGLE_API_KEY"}, {"LLM_API_KEY"},
      {"GEMINI_API_KEY", "OPENAI_API_KEY", "HUGGINGFACE_API_KEY"} }

\* the agent at a call of call_llm
AtCall(pc, attempt, ctx, rewrites, script) ==
    [pc |-> pc, attempt |-> attempt, ctx |-> ctx, rewrites |-> rewrites,
     script |-> script, result |-> NoResult]

\* the agent after generate_script has returned or raised
Finished(result) ==
    [pc |-> "done", attempt |-> 0, ctx |-> "main", rewrites |-> 0,
     script |-> NoScript, result |-> result]

\* lines 194-199: after the loop
Exhausted ==
    IF saEnv \cap {"LLM_API_KEY", "GEMINI_API_KEY", "OPENAI_API_KEY", "HUGGINGFACE_API_KEY"} # {}
    THEN Finished([exc |-> TRUE, val |-> NoScript])
    ELSE Finished(Returned(_heuristic_fallback(saSection.title, saSection.summary)))

\* the loop that tries the same attempt again
RetrySameAttempt == AtCall("primary", saAttempt, "main", 0, NoScript)

\* `continue`, and the end of the loop's body: the next attempt, if any
NextAttempt ==
    IF saAttempt + 1 < saMaxRetries
    THEN AtCall("primary", saAttempt + 1, "main", 0, NoScript)
    ELSE Exhausted

\* lines 136-142 and 178-185: the meta of an accepted script
Accepted(script, ctx) ==
    [meta |-> IF ctx = "main"
              THEN [attempt |-> saAttempt + 1,
                    zh_ratio |-> _chinese_ratio(script.narration_parts)]
              ELSE [attempt |-> saAttempt + 1,
                    zh_ratio |-> _chinese_ratio(script.narration_parts),
                    quality_retry |-> TRUE]]
      @@ script

\* the script is returned whether it passes _check_quality or not
AfterPostProcessNoGate(script, ctx) == Finished(Returned(Accepted(script, ctx)))

\* lines 135-144 with 146-157, and 177-187: after _post_process has returned
AfterPostProcess(script, ctx) ==
    IF _check_quality(script) THEN Finished(Returned(Accepted(script, ctx)))
    ELSE IF ctx = "main" THEN AtCall("quality", saAttempt, "quality", 0, script)
    ELSE NextAttempt

\* _post_process(script, ...) up to its first call of call_llm (lines 221-241)
PostProcess(script, ctx) ==
    IF need_rewrite(script.narration_parts)
    THEN AtCall("rewrite", saAttempt, ctx, 0, script)
    ELSE AfterPostProcess(script, ctx)

\* lines 129-132 and 175-176, for the outcome of _validate_and_repair: its
\* exception ends the attempt (lines 191-192 and 188-189)
Validated(repaired, ctx) ==
    IF repaired.exc THEN NextAttempt ELSE PostProcess(repaired.val, ctx)

\* lines 124-132: after the primary or the JSON-only response
AfterData(data) ==
    IF ~Truthy(data) THEN NextAttempt
    ELSE Validated(_validate_and_repair(data, saSection.title), "main")

\* lines 94-103: the primary call
PrimaryStep(x) ==
    IF x.exc THEN NextAttempt
    ELSE IF ~Truthy(x.val) THEN AtCall("jsononly", saAttempt, "main", 0, NoScript)
    ELSE AfterData(x.val)

\* the JSON-only call whose data goes to validation even when it is empty
JsonOnlyStepUntested(x) ==
    IF x.exc THEN NextAttempt
    ELSE Validated(_validate_and_repair(OrEmptyDict(x.val), saSection.title), "main")

\* lines 116-126: the JSON-only call, whose exception leaves data None
JsonOnlyStep(x) == IF x.exc THEN NextAttempt ELSE AfterData(x.val)

\* the quality call whose exception leaves generate_script
QualityStepUnguarded(x) ==
    IF x.exc THEN Finished([exc |-> TRUE, val |-> NoScript])
    ELSE Validated(_validate_and_repair(OrEmptyDict(x.val), saSection.title), "quality")

\* lines 169-189: the strict quality re-generation
QualityStep(x) ==
    IF x.exc THEN NextAttempt
    ELSE Validated(_validate_and_repair(OrEmptyDict(x.val), saSection.title), "quality")

\* lines 261 and 284-296: the rewrite did not give parts that pass; the
\* next of the two tries, or the last resort
RewriteFailed ==
    IF saRewrites + 1 < 2
    THEN AtCall("rewrite", saAttempt, saCtx, saRewrites + 1, saScript)
    ELSE AfterPostProcess(LastResort(saScript, saSection.title), saCtx)

\* lines 268-280, for what iterating over the parts of the rewrite gave
RewriteParts(items) ==
    IF items.exc THEN RewriteFailed
    ELSE IF RewriteOk(Take(StrAll(items.val), 2))
         THEN AfterPostProcess(Rewritten(saScript, Take(StrAll(items.val), 2)), saCtx)
         ELSE RewriteFailed

\* lines 262-282: one try of the rewrite
RewriteStep(x) ==
    IF x.exc THEN RewriteFailed ELSE RewriteParts(NewParts(OrEmptyDict(x.val)))

SaSet(n) ==
    /\ saPc' = n.pc
    /\ saAttempt' = n.attempt
    /\ saCtx' = n.ctx
    /\ saRewrites' = n.rewrites
    /\ saScript' = n.script
    /\ saResult' = n.result
    /\ UNCHANGED <<saSection, saEnv, saMaxRetries, exVars, lcVars, qaVars, orVars, pvVars, tpVars, wfVars, ccVars>>

\* extract_json is not running
ExIdle ==
    /\ exText = <<>>
    /\ exWrap = "raw"
    /\ exObjs = <<>>
    /\ exPc = "idle"
    /\ exRes = Returned(JNone)

\* generate_script(section, paper_context, max_retries) is called
SaInit ==
    /\ ExIdle
    /\ LcIdle
    /\ QaIdle
    /\ OrIdle
    /\ PvIdle
    /\ TpIdle
    /\ WfIdle
    /\ CcIdle
    /\ saSection \in SaSections
    /\ saEnv \in SaEnvs
    /\ saMaxRetries \in 1..SaMaxRetries
    /\ saPc = "primary"
    /\ saAttempt = 0
    /\ saCtx = "main"
    /\ saRewrites = 0
    /\ saScript = NoScript
    /\ saResult = NoResult

\* the primary call of an attempt, at temperature 0.2 + 0.05 * attempt
SaPrimary ==
    /\ saPc = "primary"
    /\ \E out \in LlmOutcomes : SaSet(PrimaryStep(CallThenExtract(out)))

\* the JSON-only call of an attempt
SaJsonOnly ==
    /\ saPc = "jsononly"
    /\ \E out \in LlmOutcomes : SaSet(JsonOnlyStep(CallThenExtract(out)))

\* a rewrite call of _post_process
SaRewrite ==
    /\ saPc = "rewrite"
    /\ \E out \in LlmOutcomes : SaSet(RewriteStep(CallThenExtract(out)))

\* the strict quality re-generation call of an attempt
SaQuality ==
    /\ saPc = "quality"
    /\ \E out \in LlmOutcomes : SaSet(QualityStep(CallThenExtract(out)))

SaNext == SaPrimary \/ SaJsonOnly \/ SaRewrite \/ SaQuality

SpecScript == SaInit /\ [][SaNext]_vars

(***************************************************************************)
(* Properties of generate_script                                           *)
(***************************************************************************)
\* generate_script has returned a script
SaReturned == saPc = "done" /\ ~saResult.exc

\* the texts str(p) of the narration parts that the responses hold
PartsOfResponse(x) ==
    IF x.exc \/ x.val.t # "dict" THEN {}
    ELSE IF <<"n", "a", "r", "r", "a", "t", "i", "o", "n", "_", "p", "a", "r", "t",
              "s">> \notin DOMAIN x.val.v THEN {}
    ELSE IF x.val.v[<<"n", "a", "r", "r", "a", "t", "i", "o", "n", "_", "p", "a", "r",
                      "t", "s">>].t # "list" THEN {}
    ELSE {PyStr(x.val.v[<<"n", "a", "r", "r", "a", "t", "i", "o", "n", "_", "p", "a",
                          "r", "t", "s">>].v[k]) :
            k \in 1..Len(x.val.v[<<"n", "a", "r", "r", "a", "t", "i", "o", "n", "_",
                                   "p", "a", "r", "t", "s">>].v)}

ResponseParts == UNION {PartsOfResponse(SaExtracted[r]) : r \in DOMAIN SaExtracted}

\* C1: a script that generate_script returns passes the quality gate: it has
\* exactly two narration parts, each of at least 600 characters, and their
\* Chinese ratio is at least 0.9; otherwise the call raises.
C1_GateOrRaise ==
    SaReturned =>
        /\ Len(saResult.val.narration_parts) = 2
        /\ \A k \in 1..Len(saResult.val.narration_parts) :
              Len(saResult.val.narration_parts[k]) >= 600
        /\ ~RatioLt(_chinese_ratio(saResult.val.narration_parts), 9, 10)

\* C2: when a provider key is configured (LLM_API_KEY, GEMINI_API_KEY,
\* GOOGLE_API_KEY, OPENAI_API_KEY or HUGGINGFACE_API_KEY), a call that has
\* finished has raised or has returned a script that is not the heuristic
\* fallback; the fallback, marked meta.fallback, is returned only when no
\* provider is configured.
C2_NoFallbackWithProvider ==
    (saPc = "done" /\ saEnv # {}) =>
        (saResult.exc \/ "fallback" \notin DOMAIN saResult.val.meta)

\* C3: with a provider configured, the narration parts of an accepted script
\* (meta.attempt >= 1, no fallback flag) are texts of the LLM's responses; no
\* filler of _expand_narration is part of them.
C3_AcceptedFromResponses ==
    (SaReturned /\ saEnv # {} /\ saResult.val.meta.attempt >= 1
       /\ "fallback" \notin DOMAIN saResult.val.meta) =>
        \A k \in 1..Len(saResult.val.narration_parts) :
            saResult.val.narration_parts[k] \in ResponseParts

\* C4: a script that generate_script returns has between 3 and 5 bullets and
\* exactly 2 narration parts, each of at least 600 characters.
C4_Shape ==
    SaReturned =>
        /\ Len(saResult.val.bullets) >= 3
        /\ Len(saResult.val.bullets) <= 5
        /\ Len(saResult.val.narration_parts) = 2
        /\ \A k \in 1..2 : Len(saResult.val.narration_parts[k]) >= 600

\* C4, its case: an accepted script made from a response of six bullets
\* and three parts, cut to five bullets and two parts
C4_Witness ==
    /\ SaReturned
    /\ saResult.val.meta.attempt >= 1
    /\ Len(saResult.val.bullets) = 5
    /\ saResult.val.narration_parts = <<ZhA, ZhB>>

\* narration is the parts joined by a blank line
NarrationDerived(script) ==
    script.narration = Join(script.narration_parts, ParagraphSep)

\* C5: in every script that _validate_and_repair, _post_process (on each of
\* its exits) and _heuristic_fallback produce, narration is
\* "\n\n".join(narration_parts): the script in hand at each call, and the
\* script returned.
C5_NarrationDerived ==
    /\ NarrationDerived(saScript)
    /\ SaReturned => NarrationDerived(saResult.val)

\* C5, its case: the last resort of _post_process has replaced the parts, and
\* the script has been accepted
C5_Witness ==
    /\ SaReturned
    /\ saResult.val.meta.attempt >= 1
    /\ \E k \in 1..2 : saResult.val.narration_parts[k] \notin ResponseParts
    /\ saResult.val.narration # <<>>

(***************************************************************************)
(* LLMClient without a provider key (src/src/utils/llm_client.py): the     *)
(* quality helpers, the heuristic expansion and the repair of parts.       *)
(* chat_completion returns "" when no key is set (lines 40-62).            *)
(***************************************************************************)
\* c.isascii(): a character outside ASCII has a name of several letters
IsAscii(c) == c = BT \/ Len(c) = 1

UpperLetters ==
    << "A", "B", "C", "D", "E", "F", "G", "H", "I", "J", "K", "L", "M",
       "N", "O", "P", "Q", "R", "S", "T", "U", "V", "W", "X", "Y", "Z" >>

LowerLetters ==
    << "a", "b", "c", "d", "e", "f", "g", "h", "i", "j", "k", "l", "m",
       "n", "o", "p", "q", "r", "s", "t", "u", "v", "w", "x", "y", "z" >>

\* str.lower()
lower(s) ==
    [k \in 1..Len(s) |->
        IF \E m \in 1..26 : UpperLetters[m] = s[k]
        THEN LowerLetters[CHOOSE m \in 1..26 : UpperLetters[m] = s[k]]
        ELSE s[k]]

\* w in s
Contains(s, w) == \E p \in 1..Len(s) : HasAt(s, p, w)

\* is position i of s inside a run of at least n characters of cls
InRun(s, i, cls, n) ==
    \E j \in (i - n + 1)..i :
        /\ j >= 1
        /\ j + n - 1 <= Len(s)
        /\ \A m \in j..(j + n - 1) : s[m] \in cls

\* re.sub of the runs of at least n characters of cls by the empty text
RemoveRuns(s, cls, n) == Pick(s, Sel(1, Len(s), LAMBDA i : ~InRun(s, i, cls, n)))

\* the positions that stay when each such run becomes one character: those
\* outside the runs, and the first of each run
RunHeads(s, cls, n) ==
    Sel(1, Len(s), LAMBDA i : ~InRun(s, i, cls, n) \/ i = 1 \/ s[i - 1] \notin cls)

SpaceAt(s, keep, cls, n) ==
    [m \in 1..Len(keep) |-> IF InRun(s, keep[m], cls, n) THEN " " ELSE s[keep[m]]]

\* re.sub of the runs of at least n characters of cls by one space
SpaceRuns(s, cls, n) == SpaceAt(s, RunHeads(s, cls, n), cls, n)

\* re.split: the texts between the matches, match k being s[a[k]..b[k]]
Split(s, a, b) ==
    [k \in 1..(Len(a) + 1) |->
        Slice(s, IF k = 1 THEN 1 ELSE b[k - 1] + 1,
                 IF k > Len(a) THEN Len(s) ELSE a[k] - 1)]

\* [p.strip() for p in pieces], without the empty ones
Stripped(pieces) == SelectSeq([k \in 1..Len(pieces) |-> strip(pieces[k])], LAMBDA p : p # <<>>)

\* the elements of q, repeated ones included
KeepAll(q) == q

\* the elements of q, each at its first occurrence only
Unique(q) == Pick(q, Sel(1, Len(q), LAMBDA k : \A j \in 1..(k - 1) : q[j] # q[k]))

\* the sentence boundaries of _dedup_sentences
SentenceEnds == {"u3002", ".", "!", "?", "uFF1B", ";"}

FullStop == <<"u3002">>

SentenceCuts(s) == Sel(1, Len(s), LAMBDA i : s[i] \in SentenceEnds)

\* re.split(r"[<boundaries>]\s*", text), for the positions of the boundaries
SentenceSplit(s, a) == Split(s, a, [k \in 1..Len(a) |-> RunEnd(s, a[k] + 1, ReWs)])

\* LLMClient._dedup_sentences(text)
_dedup_sentences(text) ==
    IF Len(text) = 0 THEN text
    ELSE Join(Unique(Stripped(SentenceSplit(text, SentenceCuts(text)))), FullStop)

\* LLMClient._is_chinese_dominant(text, threshold), for threshold = p / q
_is_chinese_dominant(text, p, q) ==
    IF Len(text) = 0 THEN FALSE ELSE ~RatioLt(ChineseRatioOf(text), p, q)

TopicWords ==
    << <<{<<"i", "n", "t", "r", "o", "d", "u", "c", "t", "i", "o", "n">>, <<"i", "n",
                                                                            "t", "r",
                                                                            "o">>}, <<"u5F15",
                                                                                                                                                                                                                                                                  "u8A00">>>>,
       <<{<<"b", "a", "c", "k", "g", "r", "o", "u", "n", "d">>}, <<"u80CC", "u666F">>>>,
       <<{<<"m", "e", "t", "h", "o", "d">>, <<"a", "p", "p", "r", "o", "a", "c", "h">>, <<"a",
                                                                                          "r",
                                                                                          "c",
                                                                                          "h",
                                                                                          "i",
                                                                                          "t",
                                                                                          "e",
                                                                                          "c",
                                                                                          "t",
                                                                                          "u",
                                                                                          "r",
                                                                                          "e">>}, <<"u65B9",
                                                                                                                                                                                                                                                                                                                                                                                                                                                                                                                                                                                                                                                                                                                                                                                                                                                                                                                                                                                                                                                                                                                                                                                         "u6CD5">>>>,
       <<{<<"e", "x", "p", "e", "r", "i", "m", "e", "n", "t">>, <<"s", "e", "t", "u",
                                                                  "p">>}, <<"u5B9E",
                                                                                                                                                                  "u9A8C">>>>,
       <<{<<"r", "e", "s", "u", "l", "t">>, <<"a", "n", "a", "l", "y", "s", "i", "s">>}, <<"u7ED3",
                                                                                           "u679C">>>>,
       <<{<<"c", "o", "n", "c", "l", "u", "s", "i", "o", "n">>, <<"d", "i", "s", "c",
                                                                  "u", "s", "s", "i",
                                                                  "o", "n">>}, <<"u7ED3",
                                                                                                                                                                                                                                                             "u8BBA">>>> >>

\* lines 283-294: the Chinese name of a common section title; hits are the
\* branches of the if chain whose words the lower-cased topic holds
TopicName(t, hits) == IF Len(hits) = 0 THEN t ELSE TopicWords[hits[1]][2]

NormalTopic(t) ==
    TopicName(t, Sel(1, Len(TopicWords),
                     LAMBDA k : \E w \in TopicWords[k][1] : Contains(lower(t), w)))

\* lines 281-294: t
Topic(topic) == NormalTopic(strip(IF Len(topic) = 0 THEN <<"u8BE5", "u90E8", "u5206">> ELSE topic))
\* line 315: base
ExpandBase(t) ==
    <<"u672C", "u90E8", "u5206", "u56F4", "u7ED5">>
    \o t
    \o <<"u8FDB", "u884C", "u8BE6", "u7EC6", "u8BB2", "u89E3", "uFF0C", "u4ECE", "u7814",
      "u7A76", "u52A8", "u673A", "u3001", "u5173", "u952E", "u6982", "u5FF5", "u3001",
      "u5178", "u578B", "u65B9", "u6CD5", "u3001", "u5B9E", "u8DF5", "u7EC6", "u8282",
      "u4E0E", "u6F5C", "u5728", "u95EE", "u9898", "u7B49", "u89D2", "u5EA6", "u5C55",
      "u5F00", "uFF0C", "u529B", "u6C42", "u6E05", "u6670", "u3001", "u8FDE", "u8D2F",
      "u4E14", "u53EF", "u64CD", "u4F5C", "u3002">>

\* the characters of the fragments that line 327 replaces
FragmentChars ==
    AsciiLetters \cup Digits \cup {"_", "/", ".", ":", ";", "+", "-"}

NewlineCuts(s) == Sel(1, Len(s), LAMBDA i : s[i] = "\n" /\ (i = 1 \/ s[i - 1] # "\n"))

\* re.split(r"\n+", content), for the positions where the newlines begin
NewlineSplit(s, a) == Split(s, a, [k \in 1..Len(a) |-> RunEnd(s, a[k], {"\n"})])

\* lines 323-325: asc / max(1, len(ln)) < 0.2
MostlyChinese(ln) == 5 * Len(SelectSeq(ln, IsAscii)) < Max1(Len(ln))

\* line 327, for the lines kept
Spaced(kept) == [k \in 1..Len(kept) |-> SpaceRuns(kept[k], FragmentChars, 3)]

\* lines 318-328: lines, for the stripped lines that are not empty
KeptLines(stripped) == Spaced(SelectSeq(stripped, MostlyChinese))

\* line 329: more, before the two sentences that a short one gets
MoreOf(lines) == Join(SelectSeq(lines, LAMBDA ln : strip(ln) # <<>>), FullStop)

\* lines 330-331
MoreTerms(more, min_len) ==
    IF Len(more) < min_len \div 2
    THEN more \o FullStop \o <<"u8FD9", "u4E00", "u90E8", "u5206", "u8FD8", "u5C06",
                               "u89E3", "u91CA", "u5173", "u952E", "u672F", "u8BED",
                               "u7684", "u76F4", "u89C2", "u542B", "u4E49", "u3001",
                               "u4E3A", "u4F55", "u5FC5", "u8981", "u3001", "u4E0E",
                               "u76F8", "u5173", "u5DE5", "u4F5C", "u7684", "u5DEE",
                               "u522B", "u3001", "u4EE5", "u53CA", "u5728", "u771F",
                               "u5B9E", "u4EFB", "u52A1", "u4E2D", "u7684", "u4F7F",
                               "u7528", "u6CE8", "u610F", "u4E8B", "u9879", "u3002">>
    ELSE more

\* lines 332-333: len(more) < min_len * 0.9
MoreSummary(more, min_len) ==
    IF 10 * Len(more) < 9 * min_len
    THEN more \o FullStop \o <<"u6700", "u540E", "u603B", "u7ED3", "u4E3B", "u8981",
                               "u89C2", "u70B9", "uFF0C", "u5E76", "u6307", "u51FA",
                               "u5F53", "u524D", "u65B9", "u6CD5", "u7684", "u5C40",
                               "u9650", "u4E0E", "u6539", "u8FDB", "u65B9", "u5411",
                               "uFF0C", "u4EE5", "u5E2E", "u52A9", "u8BFB", "u8005",
                               "u5EFA", "u7ACB", "u5B8C", "u6574", "u7684", "u8BA4",
                               "u77E5", "u6846", "u67B6", "u3002">>
    ELSE more

\* lines 318-333: more
More(content, min_len) ==
    MoreSummary(MoreTerms(MoreOf(KeptLines(Stripped(NewlineSplit(content, NewlineCuts(content))))),
                          min_len),
                min_len)

\* lines 336-342: filler_paras
FillerParas(t) ==
    << <<"u56F4", "u7ED5">>
       \o t
       \o <<"uFF0C", "u8FDB", "u4E00", "u6B65", "u4ECE", "u95EE", "u9898", "u573A",
         "u666F", "u3001", "u7814", "u7A76", "u52A8", "u673A", "u4E0E", "u5E94",
         "u7528", "u4EF7", "u503C", "u5C55", "u5F00", "u53D9", "u8FF0", "uFF0C",
         "u7ED3", "u5408", "u5178", "u578B", "u5B9E", "u4F8B", "u8BF4", "u660E",
         "u5176", "u5728", "u771F", "u5B9E", "u4EFB", "u52A1", "u4E2D", "u7684",
         "u610F", "u4E49", "u4E0E", "u6311", "u6218", "u3002">>,
       <<"u5728", "u65B9", "u6CD5", "u5C42", "u9762", "uFF0C", "u6211", "u4EEC",
         "u603B", "u7ED3", "u5E38", "u89C1", "u6280", "u672F", "u8DEF", "u7EBF",
         "u7684", "u4F18", "u7F3A", "u70B9", "u4E0E", "u9002", "u7528", "u6761",
         "u4EF6", "uFF0C", "u5BF9", "u5173", "u952E", "u6B65", "u9AA4", "u7ED9",
         "u51FA", "u76F4", "u89C2", "u6BD4", "u55BB", "uFF0C", "u5E2E", "u52A9",
         "u5EFA", "u7ACB", "u53EF", "u64CD", "u4F5C", "u7684", "u601D", "u7EF4",
         "u6846", "u67B6", "u3002">>,
       <<"u540C", "u65F6", "u5BF9", "u6BD4", "u76F8", "u5173", "u5DE5", "u4F5C",
         "uFF0C", "u6307", "u51FA", "u672C", "u4E3B", "u9898", "u4E0E", "u4F20",
         "u7EDF", "u505A", "u6CD5", "u7684", "u5DEE", "u5F02", "u4E0E", "u8054",
         "u7CFB", "uFF0C", "u5F3A", "u8C03", "u8BBE", "u8BA1", "u53D6", "u820D",
         "u4E0E", "u6F5C", "u5728", "u98CE", "u9669", "uFF0C", "u907F", "u514D",
         "u751F", "u642C", "u786C", "u5957", "u3002">>,
       <<"u5728", "u5B9E", "u8DF5", "u843D", "u5730", "u65B9", "u9762", "uFF0C",
         "u603B", "u7ED3", "u8BC4", "u4F30", "u6307", "u6807", "u3001", "u6570",
         "u636E", "u4E0E", "u5B9E", "u73B0", "u7EC6", "u8282", "u3001", "u8C03",
         "u53C2", "u7B56", "u7565", "u4E0E", "u8BCA", "u65AD", "u5EFA", "u8BAE",
         "uFF0C", "u5F62", "u6210", "u9762", "u5411", "u5DE5", "u7A0B", "u7684",
         "u64CD", "u4F5C", "u6307", "u5F15", "u3002">>,
       <<"u6700", "u540E", "u5C55", "u671B", "u6539", "u8FDB", "u65B9", "u5411",
         "u4E0E", "u5F00", "u653E", "u95EE", "u9898", "uFF0C", "u8BA8", "u8BBA",
         "u4E0E", "u5176", "u5B83", "u65B9", "u5411", "u7684", "u4EA4", "u53C9",
         "u878D", "u5408", "u4E0E", "u5E94", "u7528", "u524D", "u666F", "uFF0C",
         "u5F3A", "u5316", "u957F", "u671F", "u89C6", "u89D2", "u4E0E", "u7CFB",
         "u7EDF", "u6027", "u7406", "u89E3", "u3002">> >>

RECURSIVE FillLoop(_, _, _, _)
\* lines 343-346: while len(out) < min_len and _i < 50
FillLoop(out, i, paras, min_len) ==
    IF Len(out) < min_len /\ i < 50
    THEN FillLoop(out \o FullStop \o paras[(i % Len(paras)) + 1], i + 1, paras, min_len)
    ELSE out

\* lines 314-349: the heuristic expansion, for the normalised topic t
Heuristic(content, t, min_len) ==
    Take(RemoveRuns(FillLoop(_dedup_sentences(ExpandBase(t) \o FullStop \o More(content, min_len)),
                             0, FillerParas(t), min_len),
                    AsciiLetters, 2),
         8000)

\* lines 296-309: the rewrite by the LLM, for the text chat_completion
\* returned: the text to return, or the falsy "" to go on
LlmRewrite(txt, min_len) ==
    IF Len(txt) = 0 THEN txt
    ELSE IF _is_chinese_dominant(_dedup_sentences(txt), 9, 10)
            /\ Len(_dedup_sentences(txt)) >= min_len
         THEN Take(_dedup_sentences(txt), 8000)
         ELSE <<>>

\* chat_completion(messages) of a client without keys (lines 40-62)
chat_completion == <<>>

\* LLMClient._expand_to_chinese(content, topic, min_len), no provider key set
_expand_to_chinese(content, topic, min_len) ==
    IF Len(LlmRewrite(chat_completion, min_len)) > 0
    THEN LlmRewrite(chat_completion, min_len)
    ELSE Heuristic(content, Topic(topic), min_len)

\* line 356: re.sub(r"[\x00-\x1F\x7F]", " ", p)
ControlToSpace(p) == [k \in 1..Len(p) |-> IF p[k] \in JsonControl THEN " " ELSE p[k]]

\* lines 358-359, for the part after _dedup_sentences
RepairedPart(p, topic, min_len) ==
    IF ~_is_chinese_dominant(p, 9, 10) \/ Len(p) < min_len
    THEN _expand_to_chinese(p, topic, min_len)
    ELSE p

\* lines 353-360: the loop of _validate_and_repair_parts
FixedParts(parts, topic, min_len) ==
    [k \in 1..Len(parts) |->
        RepairedPart(_dedup_sentences(ControlToSpace(strip(parts[k]))), topic, min_len)]

\* part.split(full stop), for the positions of the full stops
SplitAt(part, cuts) == Split(part, cuts, cuts)

\* lines 364-365: [s for s in part.split(full stop) if s.strip()]
Sentences(part) ==
    SelectSeq(SplitAt(part, Sel(1, Len(part), LAMBDA i : part[i] = "u3002")),
              LAMBDA s : strip(s) # <<>>)

SetOf(q) == {q[k] : k \in 1..Len(q)}

\* lines 366-369: overlap_ratio > 0.1
Overlapping(s1, s2) ==
    /\ Len(s1) > 0
    /\ Len(s2) > 0
    /\ 10 * Cardinality(SetOf(s1) \cap SetOf(s2)) > Max1(Min({Len(s1), Len(s2)}))

\* lines 362-369: is the LLM asked to diversify the second part
AsksDiversify(fixed) ==
    /\ Len(fixed) = 2
    /\ Len(fixed[1]) > 0
    /\ Len(fixed[2]) > 0
    /\ Overlapping(Sentences(fixed[1]), Sentences(fixed[2]))

\* the second part is replaced by any text that is not empty
DiversifiedUngated(fixed, txt, min_len) ==
    IF Len(txt) > 0
    THEN [fixed EXCEPT ![2] = Take(_dedup_sentences(txt), 8000)]
    ELSE fixed

\* lines 376-377, for the text chat_completion returned
Diversified(fixed, txt, min_len) ==
    IF Len(txt) > 0 /\ _is_chinese_dominant(txt, 9, 10) /\ Len(txt) >= min_len
    THEN [fixed EXCEPT ![2] = Take(_dedup_sentences(txt), 8000)]
    ELSE fixed
(***************************************************************************)
(* The two helpers as a state machine: _expand_to_chinese is one step;     *)
(* _validate_and_repair_parts stops at its call of chat_completion.        *)
(***************************************************************************)
LcMaxParts == 2

\* a part of 720 characters, one Latin letter after every five Chinese ones
MixedPart == [k \in 1..720 |-> IF k % 6 = 0 THEN "a" ELSE "u4E2D"]

\* the contents and the parts the helpers are called with
LcTexts ==
    { <<>>,
      <<"S", "h", "o", "r", "t", " ", "E", "n", "g", "l", "i", "s", "h", " ", "p", "a",
        "r", "t", ".">>,
      MixedPart,
      ZhA,
      BoundaryA,
      BoundaryB,
      <<"u6A21", "u578B", "u7531", "u7F16", "u7801", "u5668", "u548C", "u89E3",
        "u7801", "u5668", "u7EC4", "u6210", "u3002", "u6A21", "u578B", "u7531",
        "u7F16", "u7801", "u5668", "u548C", "u89E3", "u7801", "u5668", "u7EC4",
        "u6210", "u3002">>
        \o <<"\n">> \o <<"s", "e", "e", " ", "h", "t", "t", "p", "s", ":", "/", "/",
                         "e", "x", "a", "m", "p", "l", "e", ".", "c", "o", "m", "/",
                         "a">> \o <<"\n", "\n">>
        \o <<"u6CE8", "u610F", "u529B", "u673A", "u5236", "a", "b", "c", "u5341",
             "u5206", "u91CD", "u8981", "uFF0C", "u5B83", "u8BA9", "u6A21", "u578B",
             "u5173", "u6CE8", "u8F93", "u5165", "u7684", "u4E0D", "u540C", "u4F4D",
             "u7F6E", "x", "1", "u3002">> }

DdMaxLen == 5

\* the characters of the texts _dedup_sentences is called with
DdAlphabet == {"a", "b", "u3002", ".", " ", "uFF1B"}

\* the texts _dedup_sentences is called with
DdTexts == UNION {[1..n -> DdAlphabet] : n \in 0..DdMaxLen}

\* the topics
LcTopics == { <<"M", "e", "t", "h", "o", "d">>, <<"O", "p", "t", "i", "m", "i", "z",
                                                  "a", "t", "i", "o", "n">>, <<>>, <<"u65B9",
                                                                                                                                                                          "u6CD5">> }

\* the sequences of at most n parts
PartLists(n) == UNION {[1..m -> LcTexts] : m \in 0..n}

\* _expand_to_chinese(content, topic) or _validate_and_repair_parts(parts,
\* topic) is called, min_len being the default 600
LcInit ==
    /\ ExIdle
    /\ SaIdle
    /\ QaIdle
    /\ OrIdle
    /\ PvIdle
    /\ TpIdle
    /\ WfIdle
    /\ CcIdle
    /\ lcTopic \in LcTopics
    /\ \/ lcPc = "expand" /\ lcParts \in [1..1 -> LcTexts]
       \/ lcPc = "repair" /\ lcParts \in PartLists(LcMaxParts)
       \/ lcPc = "dedup" /\ lcParts \in [1..1 -> DdTexts] /\ lcTopic = <<>>
    /\ lcFixed = <<>>

LcSet(pc, fixed) ==
    /\ lcPc' = pc
    /\ lcFixed' = fixed
    /\ UNCHANGED <<lcParts, lcTopic, exVars, saVars, qaVars, orVars, pvVars, tpVars, wfVars, ccVars>>

\* out = self._expand_to_chinese(content, topic, min_len=600)
LcExpand ==
    /\ lcPc = "expand"
    /\ LcSet("done", <<_expand_to_chinese(lcParts[1], lcTopic, 600)>>)

\* lines 362-380, for the parts fixed by the loop
AfterLoop(fixed) == LcSet(IF AsksDiversify(fixed) THEN "diversify" ELSE "done", fixed)

\* _validate_and_repair_parts(parts, topic, min_len=600) up to its call of
\* chat_completion, or to its return
LcRepair ==
    /\ lcPc = "repair"
    /\ AfterLoop(FixedParts(lcParts, lcTopic, 600))

\* the call of chat_completion of line 375 and the return
LcDiversify ==
    /\ lcPc = "diversify"
    /\ LcSet("done", Diversified(lcFixed, chat_completion, 600))

\* out = LLMClient._dedup_sentences(text)
LcDedup ==
    /\ lcPc = "dedup"
    /\ LcSet("deduped", <<_dedup_sentences(lcParts[1])>>)

LcNext == LcExpand \/ LcRepair \/ LcDiversify \/ LcDedup

SpecClient == LcInit /\ [][LcNext]_vars

\* the two repair paths: a call of generate_script, or a call of one of the
\* helpers of LLMClient
SpecRepair == (SaInit \/ LcInit) /\ [][SaNext \/ LcNext]_vars

\* C6: with no provider key configured and min_len = 600, _expand_to_chinese
\* returns a text of at least 600 characters whose Chinese ratio is at least
\* 0.9, and _validate_and_repair_parts returns as many parts as it was given,
\* each of at least 600 characters, their combined Chinese ratio at least 0.9.
C6_ExpansionMeetsQuality ==
    lcPc = "done" =>
        /\ Len(lcFixed) = Len(lcParts)
        /\ \A k \in 1..Len(lcFixed) : Len(lcFixed[k]) >= 600
        /\ Len(lcFixed) > 0 => ~RatioLt(ChineseRatioOf(Join(lcFixed, <<>>)), 9, 10)

\* the segments of a text: it is cut at every sentence boundary, and a
\* segment runs from position i, the start or just after a boundary, to the
\* next boundary
SegmentAt(s, i) == strip(Slice(s, i, RunEnd(s, i, {s[k] : k \in 1..Len(s)} \ SentenceEnds)))

SegmentStarts(s) == {i \in 1..Len(s) : i = 1 \/ s[i - 1] \in SentenceEnds}

\* the trimmed segments of s that are not empty
Segments(s) == {SegmentAt(s, i) : i \in SegmentStarts(s)} \ {<<>>}

\* where the segment g first occurs in s
FirstAt(s, g) == Min({i \in SegmentStarts(s) : SegmentAt(s, i) = g})

\* C12: _dedup_sentences is idempotent, and its output holds each distinct
\* trimmed non-empty segment of the input exactly once, in the order of first
\* occurrence, the segments joined by the CJK full stop.
C12_DedupIdempotent ==
    lcPc = "deduped" =>
        /\ _dedup_sentences(lcFixed[1]) = lcFixed[1]
        /\ \E q \in [1..Cardinality(Segments(lcParts[1])) -> Segments(lcParts[1])] :
              /\ \A a, b \in 1..Len(q) : a < b => FirstAt(lcParts[1], q[a]) < FirstAt(lcParts[1], q[b])
              /\ lcFixed[1] = Join(q, FullStop)

\* C12, its case: a segment that comes back after another one has been
\* dropped, and the boundaries have become full stops
C12_Witness ==
    /\ lcPc = "deduped"
    /\ lcParts[1] = <<"a", ".", "b", "u3002", "a">>
    /\ lcFixed[1] = <<"a", "u3002", "b">>

(***************************************************************************)
(* QAAgent (src/agents/qa_agent.py).  A script is a dict with the keys     *)
(* bullets and narration_parts, either of which may be missing.  An issue  *)
(* is kept as its kind and the numbers of the script and of the part its   *)
(* text names, in place of the text.                                       *)
(***************************************************************************)
\* script.get(key, [])
QaGet(script, key) == IF key \in DOMAIN script THEN script[key] ELSE <<>>

\* c.isalpha(), for the characters of this model
IsAlpha(c) == c \in AsciiLetters \cup Cjk

\* QAAgent._chinese_ratio(text)
QaChineseRatio(text) ==
    IF Len(text) = 0 THEN Ratio(0, 1)
    ELSE Ratio(Count(text, Cjk), Max1(Count(text, Cjk) + Len(SelectSeq(text, IsAlpha))))

Issue(kind, i, j) == [kind |-> kind, script |-> i, part |-> j]

\* lines 39-45: the issues of part j of script i
PartIssues(part, i, j) ==
    (IF Len(part) < 600 THEN <<Issue("short", i, j)>> ELSE <<>>)
      \o (IF RatioLt(QaChineseRatio(part), 7, 10) THEN <<Issue("ratio", i, j)>> ELSE <<>>)

RECURSIVE PartsIssues(_, _, _)
\* lines 37-45: the loop over the parts, from part j on
PartsIssues(parts, i, j) ==
    IF j > Len(parts) THEN <<>>
    ELSE PartIssues(parts[j], i, j) \o PartsIssues(parts, i, j + 1)

\* lines 48-52
BulletIssues(bullets, i) ==
    IF Len(bullets) < 3 THEN <<Issue("few_bullets", i, 0)>>
    ELSE IF Len(bullets) > 5 THEN <<Issue("many_bullets", i, 0)>>
    ELSE <<>>

\* the checks of a script stop at its first issue
ScriptIssuesFirstOnly(script, i) ==
    Take((IF Len(QaGet(script, "narration_parts")) < 2 THEN <<Issue("few_parts", i, 0)>> ELSE <<>>)
           \o PartsIssues(QaGet(script, "narration_parts"), i, 1)
           \o BulletIssues(QaGet(script, "bullets"), i),
         1)

\* lines 33-52: the issues of script i
ScriptIssues(script, i) ==
    (IF Len(QaGet(script, "narration_parts")) < 2 THEN <<Issue("few_parts", i, 0)>> ELSE <<>>)
      \o PartsIssues(QaGet(script, "narration_parts"), i, 1)
      \o BulletIssues(QaGet(script, "bullets"), i)

RECURSIVE AllScriptIssues(_, _)
\* lines 31-52: the loop over the scripts, from script i on
AllScriptIssues(scripts, i) ==
    IF i > Len(scripts) THEN <<>>
    ELSE ScriptIssues(scripts[i], i) \o AllScriptIssues(scripts, i + 1)

\* the sentence endings of _split_sentences
QaSentenceEnds == {"u3002", "uFF01", "uFF1F", ".", "!", "?"}

QaCuts(s) == Sel(1, Len(s), LAMBDA i : s[i] \in QaSentenceEnds /\ (i = 1 \/ s[i - 1] \notin QaSentenceEnds))

\* re.split(r'[<endings>]+', text), for the positions where the endings begin
QaSplit(s, a) == Split(s, a, [k \in 1..Len(a) |-> RunEnd(s, a[k], QaSentenceEnds)])

\* QAAgent._split_sentences(text)
_split_sentences(text) ==
    SelectSeq(Stripped(QaSplit(text, QaCuts(text))), LAMBDA p : Len(p) > 10)

RECURSIVE PartSentences(_, _)
\* lines 114-116: the sentences of the parts, from part j on
PartSentences(parts, j) ==
    IF j > Len(parts) THEN <<>>
    ELSE _split_sentences(parts[j]) \o PartSentences(parts, j + 1)

RECURSIVE AllSentences(_, _)
\* lines 111-116: all_sentences, from script i on
AllSentences(scripts, i) ==
    IF i > Len(scripts) THEN <<>>
    ELSE PartSentences(QaGet(scripts[i], "narration_parts"), 1) \o AllSentences(scripts, i + 1)

\* line 123: sum(count - 1 for count in sentence_counts.values() if count > 1)
Duplicates(all) == Len(all) - Cardinality({all[k] : k \in 1..Len(all)})

\* lines 118-126, for all_sentences
RateOf(all) == IF Len(all) < 2 THEN Ratio(0, 1) ELSE Ratio(Duplicates(all), Len(all))

\* _check_repetition that counts the sentences of a single script as well
CheckRepetitionOfAny(scripts) == RateOf(AllSentences(scripts, 1))

\* QAAgent._check_repetition(scripts)
_check_repetition(scripts) ==
    IF Len(scripts) < 2 THEN Ratio(0, 1) ELSE RateOf(AllSentences(scripts, 1))

\* lines 55-57, for the repetition rate
RepetitionIssues(rate) == IF RatioGt(rate, 1, 10) THEN <<Issue("repetition", 0, 0)>> ELSE <<>>

\* lines 59-60, for the issues
QaReturn(issues, rate) == [passed |-> Len(issues) = 0, issues |-> issues, rate |-> rate]

\* QAAgent.check_scripts_quality(scripts): passed, issues, and the local
\* repetition_rate
check_scripts_quality(scripts) ==
    QaReturn(AllScriptIssues(scripts, 1) \o RepetitionIssues(_check_repetition(scripts)),
             _check_repetition(scripts))
QaMaxScripts == 2

\* sentences of more than 10 characters
QaSentences ==
    << <<"u672C", "u7814", "u7A76", "u63D0", "u51FA", "u4E86", "u4E00", "u79CD",
         "u65B0", "u7684", "u65B9", "u6CD5">>,
       <<"u6211", "u4EEC", "u5728", "u4E09", "u4E2A", "u6570", "u636E", "u96C6",
         "u4E0A", "u505A", "u4E86", "u5B9E", "u9A8C">>,
       <<"u7ED3", "u679C", "u8868", "u660E", "u6A21", "u578B", "u7684", "u6027",
         "u80FD", "u660E", "u663E", "u63D0", "u9AD8">>,
       <<"u6CE8", "u610F", "u529B", "u673A", "u5236", "u8BA9", "u6A21", "u578B",
         "u5173", "u6CE8", "u91CD", "u8981", "u4F4D", "u7F6E">>,
       <<"u7F16", "u7801", "u5668", "u628A", "u8F93", "u5165", "u53D8", "u6210",
         "u5411", "u91CF", "u7684", "u5E8F", "u5217">>,
       <<"u89E3", "u7801", "u5668", "u6839", "u636E", "u5411", "u91CF", "u9010",
         "u6B65", "u751F", "u6210", "u8F93", "u51FA">>,
       <<"u8BAD", "u7EC3", "u65F6", "u4F7F", "u7528", "u4E86", "u5927", "u91CF",
         "u65E0", "u6807", "u6CE8", "u6587", "u672C">>,
       <<"u6700", "u540E", "u8BA8", "u8BBA", "u65B9", "u6CD5", "u7684", "u5C40",
         "u9650", "u548C", "u6539", "u8FDB", "u65B9", "u5411">>,
       <<"u8FD9", "u4E9B", "u53D1", "u73B0", "u4E3A", "u540E", "u7EED", "u7814",
         "u7A76", "u63D0", "u4F9B", "u4E86", "u53C2", "u8003">> >>

\* the part made of the sentences numbered in ks, a full stop after each
RECURSIVE PartOf(_, _)
PartOf(ks, n) ==
    IF n > Len(ks) THEN <<>>
    ELSE QaSentences[ks[n]] \o <<"u3002">> \o PartOf(ks, n + 1)

ZhC == Rep("u578B", 600)

ZhD == [k \in 1..600 |-> IF k % 20 = 0 THEN "uFF0C" ELSE "u6A21"]

\* the scripts a batch is made of
QaScriptPool ==
    { \* three to five bullets, two long parts of Chinese characters only
      [bullets |-> ThreeBullets, narration_parts |-> <<ZhA, ZhB>>],
      [bullets |-> ThreeBullets \o <<<<"u8BA8", "u8BBA">>, <<"u7ED3", "u8BBA">>>>, narration_parts |-> <<ZhC, ZhD>>],
      \* one bullet and two short English parts
      [bullets |-> <<<<"O", "n", "l", "y", " ", "o", "n", "e">>>>, narration_parts |-> <<<<"T",
                                                                                           "o",
                                                                                           "o",
                                                                                           " ",
                                                                                           "s",
                                                                                           "h",
                                                                                           "o",
                                                                                           "r",
                                                                                           "t">>, <<"A",
                                                                                                                                                                                                                                                                                                                                                                                                                                                                                                                                                                                                                                                                                                                                                                                                                                                                                                    "l",
                                                                                                                                                                                                                                                                                                                                                                                                                                                                                                                                                                                                                                                                                                                                                                                                                                                                                                    "s",
                                                                                                                                                                                                                                                                                                                                                                                                                                                                                                                                                                                                                                                                                                                                                                                                                                                                                                    "o",
                                                                                                                                                                                                                                                                                                                                                                                                                                                                                                                                                                                                                                                                                                                                                                                                                                                                                                    " ",
                                                                                                                                                                                                                                                                                                                                                                                                                                                                                                                                                                                                                                                                                                                                                                                                                                                                                                    "s",
                                                                                                                                                                                                                                                                                                                                                                                                                                                                                                                                                                                                                                                                                                                                                                                                                                                                                                    "h",
                                                                                                                                                                                                                                                                                                                                                                                                                                                                                                                                                                                                                                                                                                                                                                                                                                                                                                    "o",
                                                                                                                                                                                                                                                                                                                                                                                                                                                                                                                                                                                                                                                                                                                                                                                                                                                                                                    "r",
                                                                                                                                                                                                                                                                                                                                                                                                                                                                                                                                                                                                                                                                                                                                                                                                                                                                                                    "t">>>>],
      \* six bullets and no key narration_parts
      [bullets |-> ThreeBullets \o ThreeBullets],
      \* one part of five sentences; two parts of five sentences in all, one
      \* of them a sentence of the first; one part of four, likewise
      [bullets |-> ThreeBullets, narration_parts |-> <<PartOf(<<1, 2, 3, 4, 5>>, 1)>>],
      [bullets |-> ThreeBullets, narration_parts |-> <<PartOf(<<1, 6, 7>>, 1), PartOf(<<8, 9>>, 1)>>],
      [bullets |-> ThreeBullets, narration_parts |-> <<PartOf(<<1, 6, 7, 8>>, 1)>>],
      \* a long part of Chinese characters and Latin letters, 7 to 3, and a
      \* long part of one sentence said fifty times
      [bullets |-> ThreeBullets,
       narration_parts |-> <<[k \in 1..600 |-> IF k % 10 < 3 THEN "a" ELSE "u4E2D"],
                             [k \in 1..(50 * Len(PartOf(<<3>>, 1))) |-> PartOf(<<3>>, 1)[((k - 1) % Len(PartOf(<<3>>, 1))) + 1]]>>] }

\* the batches of at most n scripts
Batches(n) == UNION {[1..m -> QaScriptPool] : m \in 0..n}

\* passed, issues and repetition_rate before the call
QaNoResult == [passed |-> FALSE, issues |-> <<>>, rate |-> Ratio(0, 1)]

\* QAAgent.check_scripts_quality(scripts) is called
QaInit ==
    /\ ExIdle
    /\ SaIdle
    /\ LcIdle
    /\ OrIdle
    /\ PvIdle
    /\ TpIdle
    /\ WfIdle
    /\ CcIdle
    /\ qaScripts \in Batches(QaMaxScripts)
    /\ qaPc = "call"
    /\ qaResult = QaNoResult

\* passed, issues = qa_agent.check_scripts_quality(scripts)
CheckScriptsQuality ==
    /\ qaPc = "call"
    /\ qaResult' = check_scripts_quality(qaScripts)
    /\ qaPc' = "done"
    /\ UNCHANGED <<qaScripts, exVars, saVars, lcVars, orVars, pvVars, tpVars, wfVars, ccVars>>

QaNext == CheckScriptsQuality

SpecQA == QaInit /\ [][QaNext]_vars

(***************************************************************************)
(* Properties of check_scripts_quality                                     *)
(***************************************************************************)
\* how many issues of a kind the call gave for script i and part j
IssueCount(kind, i, j) ==
    Len(SelectSeq(qaResult.issues, LAMBDA x : x = Issue(kind, i, j)))

\* the issues the call must give for the parts and the bullets of script i
ShapeIssuesRight(parts, bullets, i) ==
    /\ IssueCount("few_parts", i, 0) = (IF Len(parts) < 2 THEN 1 ELSE 0)
    /\ IssueCount("few_bullets", i, 0) = (IF Len(bullets) < 3 THEN 1 ELSE 0)
    /\ IssueCount("many_bullets", i, 0) = (IF Len(bullets) > 5 THEN 1 ELSE 0)
    /\ \A j \in 1..Len(parts) :
          /\ IssueCount("short", i, j) = (IF Len(parts[j]) < 600 THEN 1 ELSE 0)
          /\ IssueCount("ratio", i, j) <= 1
          /\ RatioLt(ChineseRatioOf(parts[j]), 7, 10) => IssueCount("ratio", i, j) = 1

\* script i has fewer than 3 bullets and two parts, both under 600 characters
BadScript(parts, bullets) ==
    /\ Len(bullets) < 3
    /\ Len(parts) = 2
    /\ \A j \in 1..2 : Len(parts[j]) < 600

\* C13: check_scripts_quality runs every check of every script whatever
\* failed before and gives exactly one issue for each check that is violated
\* (fewer than 2 parts; a part under 600 characters; a part under the ratio
\* threshold; fewer than 3 or more than 5 bullets); passed is true exactly
\* when there is no issue; a script with fewer than 3 bullets and two short
\* parts gives passed = false and at least 3 issues.
C13_EveryCheckReported ==
    qaPc = "done" =>
        /\ qaResult.passed <=> qaResult.issues = <<>>
        /\ \A i \in 1..Len(qaScripts) :
              ShapeIssuesRight(QaGet(qaScripts[i], "narration_parts"),
                               QaGet(qaScripts[i], "bullets"), i)
        /\ (\E i \in 1..Len(qaScripts) :
                BadScript(QaGet(qaScripts[i], "narration_parts"), QaGet(qaScripts[i], "bullets")))
             => ~qaResult.passed /\ Len(qaResult.issues) >= 3

\* C13, its case: the second script of a batch has one bullet and two short
\* English parts, the first has failed before it, and the second's five
\* issues are all there
C13_Witness ==
    /\ qaPc = "done"
    /\ Len(qaScripts) = 2
    /\ "narration_parts" \notin DOMAIN qaScripts[1]
    /\ BadScript(QaGet(qaScripts[2], "narration_parts"), QaGet(qaScripts[2], "bullets"))
    /\ Len(SelectSeq(qaResult.issues, LAMBDA x : x.script = 2)) = 5

\* every script of the batch has 3 to 5 bullets and two parts of at least 600
\* characters, all Chinese characters and punctuation
GoodBatch ==
    \A i \in 1..Len(qaScripts) :
        /\ Len(QaGet(qaScripts[i], "bullets")) \in 3..5
        /\ Len(QaGet(qaScripts[i], "narration_parts")) = 2
        /\ \A j \in 1..2 :
              /\ Len(qaScripts[i].narration_parts[j]) >= 600
              /\ Count(qaScripts[i].narration_parts[j], AsciiLetters) = 0
              /\ Count(qaScripts[i].narration_parts[j], Cjk) > 0

\* C14: a part gets the low-Chinese-ratio issue exactly when
\* cjk / max(1, cjk + ASCII letters) is under 0.7; so a part of Chinese
\* characters and punctuation never gets it, and a batch of scripts with 3 to
\* 5 bullets and two long Chinese parts that do not repeat passes.
C14_RatioOverAsciiLetters ==
    qaPc = "done" =>
        /\ \A i \in 1..Len(qaScripts) : \A j \in 1..Len(QaGet(qaScripts[i], "narration_parts")) :
              IssueCount("ratio", i, j) > 0
                <=> RatioLt(ChineseRatioOf(qaScripts[i].narration_parts[j]), 7, 10)
        /\ (GoodBatch /\ IssueCount("repetition", 0, 0) = 0) => qaResult.passed

\* the segments collected from all the parts of all the scripts
Collected == AllSentences(qaScripts, 1)

\* how often the segment g was collected
Occurrences(g) == Len(SelectSeq(Collected, LAMBDA x : x = g))

RECURSIVE ExtraOccurrences(_)
\* the sum, over the distinct segments of the set gs, of occurrences - 1
ExtraOccurrences(gs) ==
    IF gs = {} THEN 0
    ELSE (Occurrences(CHOOSE g \in gs : TRUE) - 1)
           + ExtraOccurrences(gs \ {CHOOSE g \in gs : TRUE})

\* the rate of the claim: extra occurrences over segments collected
ClaimedExtra == ExtraOccurrences({Collected[k] : k \in 1..Len(Collected)})

\* the rate the call computed is n / d
RateIs(n, d) == qaResult.rate.num * d = n * qaResult.rate.den

\* C15 (as claimed): for a batch of any size, a single script included, the
\* repetition rate is the sum over the distinct segments of occurrences - 1,
\* divided by the number of segments collected from all the parts of all the
\* scripts, and the repetition check fails exactly when the rate is over 0.10.
C15_RateOfAnyBatch ==
    (qaPc = "done" /\ Len(Collected) > 0) =>
        /\ RateIs(ClaimedExtra, Len(Collected))
        /\ IssueCount("repetition", 0, 0) > 0 <=> 10 * ClaimedExtra > Len(Collected)

\* C15 (amended): for a batch of at least two scripts the repetition rate is
\* the sum over the distinct segments of occurrences - 1, divided by the
\* number of segments collected; for a batch of fewer than two scripts, and
\* when no segment is collected, it is 0; the repetition check fails exactly
\* when the rate is over 0.10.
C15_RateOfBatches ==
    qaPc = "done" =>
        /\ (Len(qaScripts) >= 2 /\ Len(Collected) > 0) => RateIs(ClaimedExtra, Len(Collected))
        /\ (Len(qaScripts) < 2 \/ Len(Collected) = 0) => RateIs(0, 1)
        /\ IssueCount("repetition", 0, 0) = 1 <=> RatioGt(qaResult.rate, 1, 10)
        /\ IssueCount("repetition", 0, 0) <= 1

\* C15, its case: two scripts with ten segments in all, one of them twice:
\* the rate is exactly 0.10 and the repetition check passes
C15_Witness ==
    /\ qaPc = "done"
    /\ Len(qaScripts) = 2
    /\ Len(Collected) = 10
    /\ ClaimedExtra = 1
    /\ RateIs(1, 10)
    /\ IssueCount("repetition", 0, 0) = 0


(***************************************************************************)
(* OrchestratorAgent (agents/orchestrator.py).  call_llm is modelled by   *)
(* its outcomes: an exception (the response_schema keyword raises one     *)
(* with BaseAgent.call_llm as it is), or a response with its two token    *)
(* counts.  The prompt, and so the paper, has no part in the outcome.      *)
(***************************************************************************)
SectionsKey == <<"s", "e", "c", "t", "i", "o", "n", "s">>

TitleKey == <<"t", "i", "t", "l", "e">>

SummaryKey == <<"s", "u", "m", "m", "a", "r", "y">>

KeywordsKey == <<"k", "e", "y", "w", "o", "r", "d", "s">>

\* `'sections' in data` for a truthy value: a key of a dict, an element of a
\* list, a piece of a string; a number is no container (TypeError)
InData(data) ==
    CASE data.t = "dict" -> Returned(SectionsKey \in DOMAIN data.v)
      [] data.t = "list" -> Returned(\E k \in 1..Len(data.v) : data.v[k] = JStr(SectionsKey))
      [] data.t = "str"  -> Returned(Contains(data.v, SectionsKey))
      [] OTHER           -> Raised

\* lines 77 and 96: not data or 'sections' not in data
NoSections(data) ==
    IF ~Truthy(data) THEN Returned(TRUE)
    ELSE IF InData(data).exc THEN Raised
    ELSE Returned(~InData(data).val)

\* line 134, `for sec in sections`: the elements of a list; a string and a
\* dict give characters and keys, none of which is a dict; None and a number
\* are not iterable
SectionItems(sections) ==
    CASE sections.t = "list"          -> Returned(sections.v)
      [] sections.t \in {"str", "dict"} -> Returned(<<>>)
      [] OTHER                        -> Raised

\* lines 138-139: str(sec.get(key, '')).strip()
SecText(sec, key) == strip(PyStr(Get(sec, key, JStr(<<>>))))

\* lines 146-148: keywords, or [] when it is not a list
KeywordList(v) == IF v.t = "list" THEN v.v ELSE <<>>

\* line 149: [str(k).strip() for k in keywords if k][:5]
Keywords(q) == Take([k \in 1..Len(SelectSeq(q, Truthy)) |-> strip(PyStr(SelectSeq(q, Truthy)[k]))], 5)

\* line 153: the summary made from the title
SummaryTemplate(title) ==
    title \o <<"u7684", "u6838", "u5FC3", "u5185", "u5BB9", "u5305", "u62EC", "u76F8",
               "u5173", "u80CC", "u666F", "u3001", "u4E3B", "u8981", "u65B9", "u6CD5",
               "u3001", "u5B9E", "u9A8C", "u7ED3", "u679C", "u4E0E", "u5206", "u6790",
               "u3002", "u672C", "u90E8", "u5206", "u5C06", "u8BE6", "u7EC6", "u9610",
               "u8FF0", "u8BE5", "u4E3B", "u9898", "u7684", "u5173", "u952E", "u8981",
               "u70B9", "u4E0E", "u6280", "u672F", "u7EC6", "u8282", "u3002">>

\* lines 152-153
Summary(summary, title) == IF Len(summary) < 50 THEN SummaryTemplate(title) ELSE summary

\* lines 155-159
ValidSection(sec) ==
    [title |-> SecText(sec, TitleKey),
     summary |-> Summary(SecText(sec, SummaryKey), SecText(sec, TitleKey)),
     keywords |-> Keywords(KeywordList(Get(sec, KeywordsKey, JList(<<>>))))]

\* lines 135-136 and 142-143: the elements that are skipped
Skipped(sec) == sec.t # "dict" \/ SecText(sec, TitleKey) = <<>>

RECURSIVE ValidatedFrom(_, _)
\* lines 134-159, from the k-th element on
ValidatedFrom(items, k) ==
    IF k > Len(items) THEN <<>>
    ELSE (IF Skipped(items[k]) THEN <<>> ELSE <<ValidSection(items[k])>>)
           \o ValidatedFrom(items, k + 1)

\* OrchestratorAgent._validate_sections(sections)
_validate_sections(sections) ==
    IF SectionItems(sections).exc THEN Raised
    ELSE Returned(ValidatedFrom(SectionItems(sections).val, 1))

\* analyze_paper at a call of call_llm
OrAtCall(pc, attempt, tokens) ==
    [pc |-> pc, attempt |-> attempt, tokens |-> tokens, result |-> OrNoResult]

\* analyze_paper has returned or raised
OrFinished(result) == [pc |-> "done", attempt |-> 0, tokens |-> <<0, 0>>, result |-> result]

\* `continue`, line 115 and the end of the loop's body: the next attempt, or
\* the RuntimeError of line 119
OrNextAttempt ==
    IF orAttempt + 1 < orMaxRetries THEN OrAtCall("primary", orAttempt + 1, <<0, 0>>)
    ELSE OrFinished([exc |-> TRUE, val |-> [sections |-> <<>>]])

\* lines 103-111: the result
OrResultOf(sections, tokens) ==
    [sections |-> sections,
     meta |-> [prompt_tokens |-> tokens[1], completion_tokens |-> tokens[2],
               total_tokens |-> tokens[1] + tokens[2], attempt |-> orAttempt + 1]]

\* lines 102-113, for the outcome of _validate_sections
OrSections(validated, tokens) ==
    IF validated.exc THEN OrNextAttempt
    ELSE IF Len(validated.val) >= 3 THEN OrFinished(Returned(OrResultOf(validated.val, tokens)))
    ELSE OrNextAttempt

\* lines 101-113: data['sections'] is a TypeError unless data is a dict
OrValidate(data, tokens) ==
    IF data.t # "dict" THEN OrNextAttempt
    ELSE OrSections(_validate_sections(data.v[SectionsKey]), tokens)

\* lines 77-101, for the outcome of the test of line 77 or line 96; nothing
\* is what the test being true leads to
OrAfterTest(test, data, tokens, nothing) ==
    IF test.exc THEN OrNextAttempt
    ELSE IF test.val THEN nothing
    ELSE OrValidate(data, tokens)

\* lines 68-77: the primary call, x the outcome of extract_json
OrPrimaryStep(x, tokens) ==
    IF x.exc THEN OrNextAttempt
    ELSE OrAfterTest(NoSections(x.val), x.val, tokens, OrAtCall("jsononly", orAttempt, tokens))

\* lines 89-98: the JSON-only call, whose exception leaves data None
OrJsonOnlyStep(x) ==
    IF x.exc THEN OrNextAttempt
    ELSE OrAfterTest(NoSections(x.val), x.val, orTokens, OrNextAttempt)

OrMaxRetries == 3

SrcSection(title, summary, keywords) ==
    SrcDict(<< <<TitleKey, title>>, <<SummaryKey, summary>>, <<KeywordsKey, keywords>> >>)

SrcTitled(title) == SrcDict(<< <<TitleKey, SrcStr(title)>> >>)

SrcPlan(sections) == SrcDict(<< <<SectionsKey, sections>> >>)

TwoKeywords == SrcList(<<SrcStr(<<"u6CE8", "u610F", "u529B">>), SrcStr(<<"u7F16",
                                                                         "u7801",
                                                                         "u5668">>)>>)

\* the responses of the LLM
OrResponses ==
    << \* three sections with summaries of 50 characters and more
       Dumps(SrcPlan(SrcList(<<SrcSection(SrcStr(<<"u5F15", "u8A00">>), SrcStr(Rep("u4E2D", 50)), TwoKeywords),
                               SrcSection(SrcStr(<<"u65B9", "u6CD5">>), SrcStr(Rep("u6587", 60)), TwoKeywords),
                               SrcSection(SrcStr(<<"u5B9E", "u9A8C">>), SrcStr(Rep("u578B", 70)), TwoKeywords)>>)), 0),
       \* three sections with a title and nothing else
       Dumps(SrcPlan(SrcList(<<SrcTitled(<<"u5F15", "u8A00">>), SrcTitled(<<"u65B9",
                                                                            "u6CD5">>), SrcTitled(<<"u5B9E",
                                                                                                                                                                                         "u9A8C">>)>>)), 0),
       \* three sections with short summaries, keywords that are no list
       Dumps(SrcPlan(SrcList(<<SrcSection(SrcStr(<<"I", "n", "t", "r", "o", "d", "u",
                                                   "c", "t", "i", "o", "n">>), SrcStr(<<"s",
                                                                                                                                                                              "h",
                                                                                                                                                                              "o",
                                                                                                                                                                              "r",
                                                                                                                                                                              "t">>), SrcStr(<<"a",
                                                                                                                                                                                                                                                                                                                                                                                                                                                                                                                                                                                                                                                                                                                                                                                                                                                                                                                                           ",",
                                                                                                                                                                                                                                                                                                                                                                                                                                                                                                                                                                                                                                                                                                                                                                                                                                                                                                                                           " ",
                                                                                                                                                                                                                                                                                                                                                                                                                                                                                                                                                                                                                                                                                                                                                                                                                                                                                                                                           "b">>)),
                               SrcSection(SrcStr(<<"M", "e", "t", "h", "o", "d">>), SrcStr(<<>>), SrcNum(5)),
                               SrcSection(SrcStr(<<"E", "x", "p", "e", "r", "i", "m",
                                                   "e", "n", "t", "s">>), SrcStr(Rep("u4E2D", 49)), TwoKeywords)>>)), 0),
       \* two sections, an element that is no dict and a section with a blank title
       Dumps(SrcPlan(SrcList(<<SrcSection(SrcStr(<<"u5F15", "u8A00">>), SrcStr(Rep("u4E2D", 50)), TwoKeywords),
                               SrcStr(<<"u65B9", "u6CD5">>),
                               SrcSection(SrcStr(<<" ", " ">>), SrcStr(Rep("u6587", 60)), TwoKeywords),
                               SrcSection(SrcStr(<<"u5B9E", "u9A8C">>), SrcStr(Rep("u578B", 70)), TwoKeywords)>>)), 0),
       \* four sections after a sentence of prose
       <<"H", "e", "r", "e", " ", "i", "s", " ", "t", "h", "e", " ", "p", "l", "a",
         "n", ":", " ">>
         \o Dumps(SrcPlan(SrcList(<<SrcSection(SrcStr(<<"B", "a", "c", "k", "g", "r",
                                                        "o", "u", "n", "d">>), SrcStr(Rep("a", 50)), SrcList(<<>>)),
                                     SrcSection(SrcStr(<<"M", "o", "d", "e", "l">>), SrcStr(Rep("b", 50)), TwoKeywords),
                                     SrcSection(SrcStr(<<"R", "e", "s", "u", "l", "t",
                                                         "s">>), SrcStr(Rep("c", 51)), TwoKeywords),
                                     SrcSection(SrcStr(<<"L", "i", "m", "i", "t", "s">>), SrcStr(Rep("d", 10)), TwoKeywords)>>)), 0),
       \* sections that is a number; a list; an empty object; an object with
       \* another key; no JSON
       Dumps(SrcPlan(SrcNum(5)), 0),
       Dumps(SrcList(<<SrcStr(SectionsKey)>>), 0),
       Dumps(SrcDict(<<>>), 0),
       Dumps(SrcDict(<< <<<<"p", "l", "a", "n">>, SrcList(<<>>)>> >>), 0),
       <<"S", "o", "r", "r", "y", ",", " ", "I", " ", "c", "a", "n", "n", "o", "t",
         " ", "d", "o", " ", "t", "h", "a", "t", ".">>,
       \* a title that is a number, a summary of 50 characters with the blanks
       \* around it, six keywords one of which is empty; inside a json fence
       JsonFence \o <<"\n">>
         \o Dumps(SrcPlan(SrcList(<<SrcSection(SrcNum(7), SrcStr(<<" ">> \o Rep("u4E2D", 48) \o <<" ">>),
                                                SrcList(<<SrcStr(<<"a">>), SrcStr(<<>>), SrcStr(<<" ",
                                                                                                  "b",
                                                                                                  " ">>), SrcNum(3),
                                                          SrcStr(<<"c">>), SrcStr(<<"d">>), SrcStr(<<"e">>)>>)),
                                     SrcSection(SrcStr(<<"u65B9", "u6CD5", "u8BBA",
                                                         "u4E0E", "u6A21", "u578B">>), SrcStr(Rep("u6587", 60)), SrcList(<<>>)),
                                     SrcSection(SrcStr(<<"u5B9E", "u9A8C">>), SrcStr(Rep("u578B", 70)), TwoKeywords)>>)), 0)
         \o <<"\n">> \o Fence >>

\* self.extract_json(response), for each response
OrExtracted == [r \in DOMAIN OrResponses |-> extract_json(OrResponses[r])]

\* prompt_tokens and completion_tokens of a call
OrTokenCounts == {<<120, 300>>, <<150, 400>>, <<150, 0>>}

\* the outcomes of a call of self.call_llm
OrOutcomes ==
    {[exc |-> TRUE, val |-> 0, tokens |-> <<0, 0>>]}
      \cup {[exc |-> FALSE, val |-> r, tokens |-> t] : r \in DOMAIN OrResponses, t \in OrTokenCounts}

\* the outcome of call_llm followed by extract_json
OrCallThenExtract(out) == IF out.exc THEN Raised ELSE OrExtracted[out.val]

OrSet(n) ==
    /\ orPc' = n.pc
    /\ orAttempt' = n.attempt
    /\ orTokens' = n.tokens
    /\ orResult' = n.result
    /\ UNCHANGED <<orMaxRetries, exVars, saVars, lcVars, qaVars, pvVars, tpVars, wfVars, ccVars>>

\* analyze_paper(paper, max_retries) is called
OrInit ==
    /\ ExIdle
    /\ SaIdle
    /\ LcIdle
    /\ QaIdle
    /\ PvIdle
    /\ TpIdle
    /\ WfIdle
    /\ CcIdle
    /\ orMaxRetries \in 1..OrMaxRetries
    /\ orPc = "primary"
    /\ orAttempt = 0
    /\ orTokens = <<0, 0>>
    /\ orResult = OrNoResult

\* the primary call of an attempt
OrPrimary ==
    /\ orPc = "primary"
    /\ \E out \in OrOutcomes : OrSet(OrPrimaryStep(OrCallThenExtract(out), out.tokens))

\* the JSON-only call of an attempt
OrJsonOnly ==
    /\ orPc = "jsononly"
    /\ \E out \in OrOutcomes : OrSet(OrJsonOnlyStep(OrCallThenExtract(out)))

OrNext == OrPrimary \/ OrJsonOnly

SpecOrchestrator == OrInit /\ [][OrNext]_vars

\* the sections analyze_paper returned
OrReturnedSections == orResult.val.sections

\* C16: analyze_paper either returns a result with at least 3 sections, each
\* with a non-empty title, a summary of at least 50 characters and a list of
\* keywords, or raises; for every response, the ones whose summary is
\* missing or short and replaced by the summary made from the title included.
C16_SectionsOrRaise ==
    (orPc = "done" /\ ~orResult.exc) =>
        /\ Len(OrReturnedSections) >= 3
        /\ \A k \in 1..Len(OrReturnedSections) :
              /\ Len(OrReturnedSections[k].title) > 0
              /\ Len(OrReturnedSections[k].summary) >= 50
              /\ DOMAIN OrReturnedSections[k].keywords = 1..Len(OrReturnedSections[k].keywords)


(***************************************************************************)
(* Properties of the two repair paths                                      *)
(***************************************************************************)
\* a candidate at the boundary of the gates: two parts of exactly 600
\* characters, the Chinese ratio of each exactly 0.9, that share no 3-gram
AtBoundary(parts) ==
    /\ Len(parts) = 2
    /\ \A k \in 1..2 : /\ Len(parts[k]) = 600
                       /\ ChineseRatioOf(parts[k]).num * 10 = 9 * ChineseRatioOf(parts[k]).den
    /\ Similarity(parts).num = 0

\* C17: a candidate whose parts have exactly 600 characters and a Chinese
\* ratio of exactly 0.9 is accepted as it is, without any rewrite or expansion
\* request: generate_script asks for no rewrite of it, and
\* _validate_and_repair_parts returns its parts unchanged without a call of
\* chat_completion.
C17_BoundaryAccepted ==
    /\ saPc = "rewrite" => ~AtBoundary(saScript.narration_parts)
    /\ (lcPc \in {"diversify", "done"} /\ AtBoundary(lcParts)) =>
          (lcPc = "done" /\ lcFixed = lcParts)


\* two parts that are the same text, with at least 3 characters that are no
\* white space
Identical(parts) ==
    /\ Len(parts) = 2
    /\ parts[1] = parts[2]
    /\ Len(SelectSeq(parts[1], LAMBDA c : c \notin ReWs)) >= 3

\* the object a call of generate_script's loop works on, x being what
\* call_llm and extract_json gave: data, or data_q
DataOf(x) == IF saPc = "quality" THEN OrEmptyDict(x.val) ELSE x.val

\* does the outcome of the primary, JSON-only or quality call give a
\* candidate: a script for _post_process
GivesCandidate(x) ==
    /\ saPc \in {"primary", "jsononly", "quality"}
    /\ ~x.exc
    /\ Truthy(DataOf(x))
    /\ ~_validate_and_repair(DataOf(x), saSection.title).exc

\* the step of generate_script that the outcome x of a call leads to
SaStep(x) ==
    CASE saPc = "primary"  -> SaSet(PrimaryStep(x))
      [] saPc = "jsononly" -> SaSet(JsonOnlyStep(x))
      [] saPc = "rewrite"  -> SaSet(RewriteStep(x))
      [] saPc = "quality"  -> SaSet(QualityStep(x))
      [] OTHER             -> FALSE

\* the candidate
CandidateOf(x) == _validate_and_repair(DataOf(x), saSection.title).val

\* C18: whenever the two parts of a candidate are identical (with at least 3
\* characters that are no white space), a rewrite is requested before the
\* candidate can be accepted: generate_script goes to the rewrite call of
\* _post_process with that candidate and accepts a script (meta.attempt >= 1,
\* no fallback flag) with two identical parts only as the outcome of a
\* rewrite call, and _validate_and_repair_parts goes to its call of
\* chat_completion.
C18_IdenticalPartsRewritten ==
    [][/\ \A out \in LlmOutcomes :
             (/\ GivesCandidate(CallThenExtract(out))
              /\ Identical(CandidateOf(CallThenExtract(out)).narration_parts)
              /\ SaStep(CallThenExtract(out)))
                 => (saPc' = "rewrite" /\ saScript' = CandidateOf(CallThenExtract(out)))
       /\ (/\ saPc' = "done"
           /\ ~saResult'.exc
           /\ "fallback" \notin DOMAIN saResult'.val.meta
           /\ Identical(saResult'.val.narration_parts))
             => saPc = "rewrite"
       /\ (lcPc = "repair" /\ Identical(lcParts)) => lcPc' = "diversify"]_vars

\* C18, its case: a rewrite is requested for a candidate with two identical
\* parts
C18_Witness ==
    /\ saPc = "rewrite"
    /\ saRewrites = 0
    /\ Identical(saScript.narration_parts)


\* the place of a call among the calls of one attempt, counted from the
\* last: the primary call, the JSON-only call, the two rewrite calls of
\* _post_process, the quality call and the two rewrite calls after it
CallsAhead(pc, ctx, rewrites) ==
    CASE pc = "primary"  -> 7
      [] pc = "jsononly" -> 6
      [] pc = "quality"  -> 3
      [] pc = "rewrite" /\ ctx = "main" -> 5 - rewrites
      [] pc = "rewrite" /\ ctx # "main" -> 2 - rewrites
      [] OTHER           -> 0

\* an upper bound of the calls of call_llm that generate_script has yet to
\* issue
CallsLeft(pc, attempt, ctx, rewrites) ==
    IF pc = "done" THEN 0
    ELSE 7 * (saMaxRetries - attempt - 1) + CallsAhead(pc, ctx, rewrites)

\* C19: generate_script always terminates, whatever the LLM does on any
\* call: while it runs the attempt index is below max_retries, and every
\* step, a call with all the code up to the next call, lowers a bound of the
\* calls left that is 0 only when it has returned or raised; the primary
\* call is issued once per attempt, each time with the next index; the
\* JSON-only call is issued only right after the primary call of the same
\* attempt, so at most once per attempt; the quality call is issued only from
\* the main path of an attempt, and after it the attempt has rewrite calls
\* only, so at most once per attempt.
C19_Terminates ==
    [][/\ saPc' # "done" => (saAttempt' < saMaxRetries /\ saAttempt' \in {saAttempt, saAttempt + 1})
       /\ CallsLeft(saPc', saAttempt', saCtx', saRewrites') < CallsLeft(saPc, saAttempt, saCtx, saRewrites)
       /\ CallsLeft(saPc', saAttempt', saCtx', saRewrites') >= 0
       /\ saPc' = "primary" => saAttempt' = saAttempt + 1
       /\ saPc' = "jsononly" => (saPc = "primary" /\ saAttempt' = saAttempt)
       /\ saPc' = "quality" => (saPc # "quality" /\ saCtx = "main" /\ saAttempt' = saAttempt)
       /\ (saCtx = "quality" /\ saPc' # "done" /\ saAttempt' = saAttempt)
             => (saPc' = "rewrite" /\ saCtx' = "quality")]_vars

\* C19, its case: generate_script has raised after max_retries attempts
C19_Witness ==
    /\ saPc = "done"
    /\ saResult.exc
    /\ saMaxRetries = SaMaxRetries


\* extraction of a response yields nothing: the call returned and data is
\* None or empty, the test `not data` of lines 103 and 124
YieldsNothing(x) == ~x.exc /\ ~Truthy(x.val)

\* the attempt has ended: the loop is at the primary call of the next
\* attempt index or, after the last attempt, generate_script has raised or
\* returned the script of _heuristic_fallback
AttemptEnded ==
    \/ saPc' = "primary" /\ saAttempt' = saAttempt + 1
    \/ /\ saPc' = "done"
       /\ saAttempt + 1 = saMaxRetries
       /\ saResult'.exc \/ "fallback" \in DOMAIN saResult'.val.meta

\* C20: within an attempt the JSON-only call is issued if and only if
\* extraction of the primary response yields nothing; if extraction of the
\* JSON-only response yields nothing too, or that call raises, the attempt
\* ends with no validation, rewrite or quality call, and the loop goes on to
\* the next attempt index.
C20_JsonOnlyIffNothing ==
    [][\A out \in LlmOutcomes :
          /\ (saPc = "primary" /\ SaStep(CallThenExtract(out)))
                => ((saPc' = "jsononly" /\ saAttempt' = saAttempt)
                      <=> YieldsNothing(CallThenExtract(out)))
          /\ (/\ saPc = "jsononly"
              /\ SaStep(CallThenExtract(out))
              /\ out.exc \/ YieldsNothing(CallThenExtract(out)))
                => AttemptEnded
          /\ saPc' = "jsononly" => saPc = "primary"]_vars

\* C20, its case: the JSON-only call is about to be issued in the second
\* attempt, extraction of the primary response having yielded nothing
C20_Witness ==
    /\ saPc = "jsononly"
    /\ saAttempt = 1
    /\ saScript = NoScript


\* the provider keys that generate_script reads after the loop (line 196)
\* hold one that is set
RaisesWhenExhausted ==
    saEnv \cap {"LLM_API_KEY", "GEMINI_API_KEY", "OPENAI_API_KEY", "HUGGINGFACE_API_KEY"} # {}

\* C21: an exception that call_llm raises on any call inside generate_script
\* (primary, JSON-only, rewrite, quality) never propagates to the caller
\* directly: generate_script raises only after the last attempt, with a
\* provider key set.  The exception of the primary, the JSON-only or the
\* quality call fails the attempt: the loop goes on to the primary call of
\* the next attempt index or, after the last attempt, to exhaustion.  The
\* exception of a rewrite call fails that step only: the script in hand is
\* kept and the attempt goes on, with the other rewrite try or, after the
\* second, with the last resort of _post_process and the code after it.  No
\* exception consumes more than one attempt index.
C21_ExceptionFailsAttempt ==
    [][/\ (saPc' = "done" /\ saResult'.exc)
             => (saAttempt + 1 = saMaxRetries /\ RaisesWhenExhausted)
       /\ (saPc \in {"primary", "jsononly", "quality"} /\ SaStep(Raised))
             => AttemptEnded
       /\ (saPc = "rewrite" /\ SaStep(Raised))
             => \/ /\ saRewrites = 0
                   /\ saPc' = "rewrite"
                   /\ saRewrites' = 1
                   /\ saScript' = saScript
                   /\ saAttempt' = saAttempt
                   /\ saCtx' = saCtx
                \/ /\ saRewrites = 1
                   /\ SaSet(AfterPostProcess(LastResort(saScript, saSection.title), saCtx))
                   /\ saPc' # "rewrite"
       /\ SaStep(Raised) => (saPc' = "done" \/ saAttempt' \in {saAttempt, saAttempt + 1})]_vars

\* C21, its case: with a provider key set the loop is at the primary call
\* of the second attempt, the first having failed
C21_Witness ==
    /\ saPc = "primary"
    /\ saAttempt = 1
    /\ RaisesWhenExhausted


\* C27: one invocation of _post_process issues at most one rewrite request
\* to the LLM, whatever the LLM answers: _post_process is never at its
\* rewrite call with a rewrite request already issued.
C27_OneRewriteRequest == saPc = "rewrite" => saRewrites = 0


\* C23: when the object extracted from the primary or the JSON-only response
\* gives a candidate with no narration parts (a response with a title only),
\* validation pads the bullets to at least 3 and leaves narration_parts
\* empty, the candidate fails the quality check and is not accepted on that
\* step; and the attempt goes on to the quality call: when the rewrite tries
\* for that candidate have failed, the quality call is issued, no script is
\* returned.
C23_NoPartsEscalates ==
    [][/\ \A out \in LlmOutcomes :
             (/\ saPc \in {"primary", "jsononly"}
              /\ GivesCandidate(CallThenExtract(out))
              /\ CandidateOf(CallThenExtract(out)).narration_parts = <<>>
              /\ SaStep(CallThenExtract(out)))
                 => /\ Len(CandidateOf(CallThenExtract(out)).bullets) >= 3
                    /\ ~_check_quality(CandidateOf(CallThenExtract(out)))
                    /\ saPc' # "done"
       /\ (/\ saPc = "rewrite"
           /\ saCtx = "main"
           /\ saScript.narration_parts = <<>>
           /\ saRewrites = 1
           /\ SaStep(Raised))
             => saPc' = "quality"]_vars


(***************************************************************************)
(* LLMClient with provider keys: _expand_to_chinese and                    *)
(* _validate_and_repair_parts, one step for each call of chat_completion.  *)
(***************************************************************************)
\* lines 23-37 and 311: generic_key, gemini_key, openai_key or hf_key is set
Configured(keys) ==
    keys \cap {"LLM_API_KEY", "GEMINI_API_KEY", "GOOGLE_API_KEY", "OPENAI_API_KEY",
               "HUGGINGFACE_API_KEY"} # {}

\* the heuristic expansion whatever keys are set
ExpandToChineseOrHeuristic(keys, out, content, topic, min_len) ==
    IF ~out.exc /\ Len(LlmRewrite(out.val, min_len)) > 0
    THEN LlmRewrite(out.val, min_len)
    ELSE Heuristic(content, Topic(topic), min_len)

\* LLMClient._expand_to_chinese(content, topic, min_len) of a client with
\* the keys set, out being the outcome of its call of chat_completion
ExpandToChinese(keys, out, content, topic, min_len) ==
    IF ~out.exc /\ Len(LlmRewrite(out.val, min_len)) > 0
    THEN LlmRewrite(out.val, min_len)
    ELSE IF Configured(keys) THEN <<>>
    ELSE Heuristic(content, Topic(topic), min_len)

\* lines 375-379: the similarity step after its call of chat_completion
DiversifiedBy(fixed, out, min_len) ==
    IF out.exc THEN fixed ELSE Diversified(fixed, out.val, min_len)

PvChars ==
    <<"u4E00", "u4E03", "u4E09", "u4E0A", "u4E0B", "u4E0D", "u4E13", "u4E16", "u4E1A",
      "u4E1C", "u4E24", "u4E2A", "u4E2D", "u4E3A", "u4E3B", "u4E49", "u4E4B", "u4E50",
      "u4E5D", "u4E5F">>

\* a part of the sentences ks, each of 60 characters, with full stops between
PvPart(ks) == Join([i \in 1..Len(ks) |-> Rep(PvChars[ks[i]], 60)], FullStop)

PvFirst == PvPart(<<1, 2, 3, 4, 5, 6, 7, 8, 9, 10>>)

\* two of its ten sentences are sentences of PvFirst
PvShared == PvPart(<<1, 2, 11, 12, 13, 14, 15, 16, 17, 18>>)

PvOther == PvPart(<<11, 12, 13, 14, 15, 16, 17, 18, 19, 20>>)

\* one sentence, said eleven times
PvRepeating == PvPart(<<1, 1, 1, 1, 1, 1, 1, 1, 1, 1, 1>>)

PvShort == <<"S", "h", "o", "r", "t", " ", "E", "n", "g", "l", "i", "s", "h", ".">>

\* the contents and the parts the helpers are called with
PvTexts == {PvShort, PvFirst, PvShared, PvOther}

\* the texts chat_completion returns
PvResponses == {<<>>, PvOther, PvRepeating, BoundaryA, MixedPart, Rep("u4E2D", 599)}

\* lines 40-62: the outcomes of chat_completion, "" when no provider is tried
PvOutcomes(keys) ==
    IF Configured(keys)
    THEN {[exc |-> TRUE, val |-> <<>>]} \cup {[exc |-> FALSE, val |-> r] : r \in PvResponses}
    ELSE {[exc |-> FALSE, val |-> <<>>]}

\* the provider keys of the environment that are set
PvEnvs ==
    { {}, {"GOOGLE_API_KEY"}, {"LLM_API_KEY"}, {"GEMINI_API_KEY"},
      {"OPENAI_API_KEY", "HUGGINGFACE_API_KEY"} }

PvMaxParts == 2

\* _expand_to_chinese(content, topic) or _validate_and_repair_parts(parts,
\* topic) is called on a client with the keys of the environment
PvInit ==
    /\ ExIdle
    /\ SaIdle
    /\ LcIdle
    /\ QaIdle
    /\ OrIdle
    /\ TpIdle
    /\ WfIdle
    /\ CcIdle
    /\ pvKeys \in PvEnvs
    /\ pvTopic = <<"M", "e", "t", "h", "o", "d">>
    /\ \/ pvPc = "expand" /\ pvParts \in [1..1 -> PvTexts]
       \/ pvPc = "repair" /\ pvParts \in UNION {[1..m -> PvTexts] : m \in 1..PvMaxParts}
    /\ pvFixed = <<>>
    /\ pvTxt = [exc |-> FALSE, val |-> <<>>]
    /\ pvAsked = 0

PvSet(pc, fixed, txt, asked) ==
    /\ pvPc' = pc
    /\ pvFixed' = fixed
    /\ pvTxt' = txt
    /\ pvAsked' = asked
    /\ UNCHANGED <<pvKeys, pvParts, pvTopic, exVars, saVars, lcVars, qaVars, orVars, tpVars, wfVars, ccVars>>

\* out = self._expand_to_chinese(content, topic, min_len=600)
PvExpand ==
    /\ pvPc = "expand"
    /\ \E out \in PvOutcomes(pvKeys) :
          PvSet("expanded", <<ExpandToChinese(pvKeys, out, pvParts[1], pvTopic, 600)>>, out, 0)

\* lines 362-370: after the loop, the similarity step up to its call
PvAfterLoop(fixed, txt) ==
    PvSet(IF Len(fixed) < Len(pvParts) THEN "repair"
          ELSE IF AsksDiversify(fixed) THEN "diversify" ELSE "done",
          fixed, txt, 0)

\* lines 354-360: one turn of the loop, for the part p after _dedup_sentences
PvTurn(p) ==
    IF ~_is_chinese_dominant(p, 9, 10) \/ Len(p) < 600
    THEN \E out \in PvOutcomes(pvKeys) :
            PvAfterLoop(Append(pvFixed, ExpandToChinese(pvKeys, out, p, pvTopic, 600)), out)
    ELSE PvAfterLoop(Append(pvFixed, p), pvTxt)

\* _validate_and_repair_parts(parts, topic, min_len=600): the next part
PvRepair ==
    /\ pvPc = "repair"
    /\ PvTurn(_dedup_sentences(ControlToSpace(strip(pvParts[Len(pvFixed) + 1]))))

\* lines 371-380: the call of chat_completion of the similarity step, and
\* the return
PvDiversify ==
    /\ pvPc = "diversify"
    /\ \E out \in PvOutcomes(pvKeys) :
          PvSet("done", DiversifiedBy(pvFixed, out, 600), out, pvAsked + 1)

PvNext == PvExpand \/ PvRepair \/ PvDiversify

SpecProvider == PvInit /\ [][PvNext]_vars


\* the test of lines 305-308 fails for the outcome of chat_completion: the
\* call raised or returned nothing, or the text, after _dedup_sentences, is
\* not Chinese-dominant at 0.9 or is shorter than min_len
FailsExpandGate(out, min_len) ==
    \/ out.exc
    \/ Len(out.val) = 0
    \/ ~_is_chinese_dominant(_dedup_sentences(out.val), 9, 10)
    \/ Len(_dedup_sentences(out.val)) < min_len

\* C24: with at least one provider key configured, when the response to the
\* rewrite/expand request fails the length or the ratio gate, or the call
\* returns nothing or raises, _expand_to_chinese returns the empty string,
\* never the text of the heuristic expansion; the heuristic text is returned
\* only when no provider key is configured.
C24_EmptyWhenConfigured ==
    pvPc = "expanded" =>
        /\ (Configured(pvKeys) /\ FailsExpandGate(pvTxt, 600)) => pvFixed = << <<>> >>
        /\ pvFixed = <<Heuristic(pvParts[1], Topic(pvTopic), 600)>> => ~Configured(pvKeys)
        /\ (~Configured(pvKeys) /\ FailsExpandGate(pvTxt, 600))
              => pvFixed = <<Heuristic(pvParts[1], Topic(pvTopic), 600)>>

\* C24, its case: with GOOGLE_API_KEY alone set, the response has 720
\* characters and Chinese ratio 5/6, and _expand_to_chinese has returned ""
C24_Witness ==
    /\ pvPc = "expanded"
    /\ pvKeys = {"GOOGLE_API_KEY"}
    /\ pvTxt = [exc |-> FALSE, val |-> MixedPart]
    /\ pvFixed = << <<>> >>

\* the test of line 376 holds for the outcome of chat_completion
PassesDiversifyGate(out, min_len) ==
    /\ ~out.exc
    /\ Len(out.val) > 0
    /\ _is_chinese_dominant(out.val, 9, 10)
    /\ Len(out.val) >= min_len

\* C25: the similarity step of _validate_and_repair_parts issues one rewrite
\* request and returns; it never changes the first part; it replaces the
\* second part only when the response passes the Chinese-ratio and length
\* gates, and when the response is empty, fails a gate, or the call raised,
\* the parts are left exactly as they were.
C25_SimilarityStepBounded ==
    [][/\ pvPc = "diversify"
             => /\ pvPc' = "done"
                /\ pvAsked' = 1
                /\ Len(pvFixed') = 2
                /\ pvFixed'[1] = pvFixed[1]
                /\ pvFixed'[2] # pvFixed[2] => PassesDiversifyGate(pvTxt', 600)
                /\ ~PassesDiversifyGate(pvTxt', 600) => pvFixed' = pvFixed
       /\ pvAsked' <= 1
       /\ pvAsked' # pvAsked => pvPc = "diversify"]_vars

\* C25, its case: the second part shared two sentences with the first, and
\* the similarity step has replaced it by the response
C25_Witness ==
    /\ pvPc = "done"
    /\ pvAsked = 1
    /\ pvParts = <<PvFirst, PvShared>>
    /\ pvFixed = <<PvFirst, PvOther>>

\* C29: a second part that the similarity step of _validate_and_repair_parts
\* has replaced has at least min_len characters and Chinese ratio at least
\* 0.9, measured on the text that is stored, after _dedup_sentences and the
\* cut at 8000.
C29_StoredPartPassesGates ==
    (pvPc = "done" /\ pvAsked = 1 /\ PassesDiversifyGate(pvTxt, 600))
        => /\ Len(pvFixed[2]) >= 600
           /\ _is_chinese_dominant(pvFixed[2], 9, 10)


(***************************************************************************)
(* The temperatures of the retry loops: ScriptAgent.generate_script calls  *)
(* the LLM at 0.2 + 0.05 * attempt for attempt in range(max_retries), and  *)
(* LLMClient.generate_section_script at 0.3 + 0.1 * attempt for attempt in *)
(* range(3).  A temperature is a number of hundredths.                     *)
(***************************************************************************)
TpMaxRetries == 38

\* script_agent.py line 96, llm_client.py line 644: the argument temperature
Temperature(loop, attempt) ==
    IF loop = "generate_script" THEN 20 + 5 * attempt ELSE 30 + 10 * attempt

\* the loop at the call of its turn attempt, or after its last turn
TpAt(attempt) ==
    /\ tpAttempt' = attempt
    /\ tpPc' = IF attempt < tpMaxRetries THEN "call" ELSE "done"
    /\ tpTemperature' = IF attempt < tpMaxRetries THEN Temperature(tpLoop, attempt) ELSE tpTemperature
    /\ UNCHANGED <<tpLoop, tpMaxRetries, exVars, saVars, lcVars, qaVars, orVars, pvVars, wfVars, ccVars>>

\* generate_script(section, paper_context, max_retries) or
\* generate_section_script(section, paper_context) is called, and is at the
\* call of its first attempt
TpInit ==
    /\ ExIdle
    /\ SaIdle
    /\ LcIdle
    /\ QaIdle
    /\ OrIdle
    /\ PvIdle
    /\ WfIdle
    /\ CcIdle
    /\ \/ tpLoop = "generate_script" /\ tpMaxRetries \in 1..TpMaxRetries
       \/ tpLoop = "generate_section_script" /\ tpMaxRetries = 3
    /\ tpAttempt = 0
    /\ tpPc = "call"
    /\ tpTemperature = Temperature(tpLoop, 0)

\* the attempt gives no script that passes: the next turn of the loop
TpRetry ==
    /\ tpPc = "call"
    /\ TpAt(tpAttempt + 1)

\* the attempt gives a script that passes, which is returned
TpReturn ==
    /\ tpPc = "call"
    /\ tpPc' = "done"
    /\ UNCHANGED <<tpLoop, tpMaxRetries, tpAttempt, tpTemperature, exVars, saVars, lcVars,
                   qaVars, orVars, pvVars, wfVars, ccVars>>

TpNext == TpRetry \/ TpReturn

SpecTemperature == TpInit /\ [][TpNext]_vars

\* C22: the temperature of the call of outer attempt i is base + step * i,
\* in hundredths 20 + 5 * i in generate_script and 30 + 10 * i in
\* generate_section_script, and for every max_retries it stays in the range
\* of the providers, whose upper end is 2.0, never above that cap.
C22_TemperatureInRange ==
    tpPc = "call" =>
        /\ tpLoop = "generate_script" => tpTemperature = 20 + 5 * tpAttempt
        /\ tpLoop = "generate_section_script" => tpTemperature = 30 + 10 * tpAttempt
        /\ tpTemperature >= 0
        /\ tpTemperature <= 200


(***************************************************************************)
(* A2AWorkflow.run (graph/workflow.py), one step for each call of an       *)
(* agent.  The agents are attributes of the workflow; a call of one gives  *)
(* what its code can return: the tokens its calls of call_llm add to its   *)
(* total_tokens (base.py 62-63) with the meta.total_tokens of its result,  *)
(* or an exception.  A script and a slide carry the round they were made   *)
(* in; the texts of a script are left out, and the verdict of              *)
(* check_scripts_quality on the scripts of a round is an outcome.          *)
(***************************************************************************)
WfMaxQaRetries == 2

WfMaxSections == 2

\* analyze_paper: one attempt, or two, the meta being that of the last
\* primary call (orchestrator.py 111-115)
WfOrchestratorCalls == {[added |-> 420, meta |-> 420], [added |-> 890, meta |-> 470]}

\* generate_script: accepted at the first attempt, accepted after rewrite
\* calls, or the fallback, whose meta.total_tokens is 0 (script_agent.py
\* 136-140, 378-385)
WfScriptCalls ==
    {[added |-> 500, meta |-> 500], [added |-> 1300, meta |-> 600], [added |-> 700, meta |-> 0]}

\* generate_slide_plan: an image prompt of the LLM, or the heuristic one
\* (slide_agent.py 86-90, 114-119), and the path of the image, if any
WfSlideCalls ==
    {[added |-> 200, meta |-> 200, image |-> TRUE],
     [added |-> 200, meta |-> 200, image |-> FALSE],
     [added |-> 150, meta |-> 0, image |-> TRUE]}

\* qa_agent.py lines 76-86: check_slides_quality(slides), its issues; the
\* bullets of a slide are those of its script, 3 to 5
WfSlideIssues(slides) ==
    SelectSeq([k \in 1..Len(slides) |-> IF slides[k].image THEN 0 ELSE k], LAMBDA k : k > 0)

\* qa_agent.py lines 151-177: generate_quality_report(scripts, slides), for
\* the issues of check_scripts_quality
generate_quality_report(scripts_issues, slides, round) ==
    [scripts_passed |-> Len(scripts_issues) = 0,
     scripts_issues |-> scripts_issues,
     slides_passed |-> Len(WfSlideIssues(slides)) = 0,
     slides_issues |-> WfSlideIssues(slides),
     overall_passed |-> (Len(scripts_issues) = 0) /\ (Len(WfSlideIssues(slides)) = 0),
     round |-> round]

\* lines 141-164: the tokens are aggregated and the result is returned
WfReturn(state, agents) ==
    [scripts |-> state.scripts,
     slides |-> state.slides,
     qa_report |-> state.qa_report,
     meta |-> [total_tokens |-> state.total_tokens + agents.orchestrator
                                   + agents.script_agent + agents.slide_agent,
               orchestrator_tokens |-> agents.orchestrator,
               script_agent_tokens |-> agents.script_agent,
               slide_agent_tokens |-> agents.slide_agent]]

\* run(paper, max_qa_retries) is called on a fresh workflow
WfInit ==
    /\ ExIdle
    /\ SaIdle
    /\ LcIdle
    /\ QaIdle
    /\ OrIdle
    /\ PvIdle
    /\ TpIdle
    /\ CcIdle
    /\ wfMaxQaRetries \in 0..WfMaxQaRetries
    /\ wfSections = 0
    /\ wfPc = "analyze"
    /\ wfAttempt = 0
    /\ wfScripts = <<>>
    /\ wfSlides = <<>>
    /\ wfState = WfFreshState
    /\ wfAgents = WfFreshAgents
    /\ wfRounds = 0
    /\ wfResult = WfNoResult

WfOthers == <<exVars, saVars, lcVars, qaVars, orVars, pvVars, tpVars, ccVars>>

\* an agent raises, and so does run
WfRaise ==
    /\ wfPc \in {"analyze", "script", "slide"}
    /\ wfPc' = "raised"
    /\ UNCHANGED <<wfMaxQaRetries, wfSections, wfAttempt, wfScripts, wfSlides, wfState,
                   wfAgents, wfRounds, wfResult, WfOthers>>

\* lines 83-89: orchestrator.analyze_paper(paper) and _update_tokens, then
\* the first round begins (lines 92-97)
WfAnalyze ==
    /\ wfPc = "analyze"
    /\ \E call \in WfOrchestratorCalls, n \in 1..WfMaxSections :
          /\ wfSections' = n
          /\ wfAgents' = [wfAgents EXCEPT !.orchestrator = @ + call.added]
          /\ wfState' = [wfState EXCEPT !.total_tokens = @ + call.meta]
    /\ wfPc' = "script"
    /\ wfRounds' = 1
    /\ UNCHANGED <<wfMaxQaRetries, wfAttempt, wfScripts, wfSlides, wfResult, WfOthers>>

\* lines 98-105: script_agent.generate_script(section, paper) for the next
\* section, and after the last one self.state['scripts'] = scripts
WfScript ==
    /\ wfPc = "script"
    /\ \E call \in WfScriptCalls :
          /\ wfScripts' = Append(wfScripts, [round |-> wfRounds, section |-> Len(wfScripts) + 1])
          /\ wfAgents' = [wfAgents EXCEPT !.script_agent = @ + call.added]
          /\ wfState' = [wfState EXCEPT
                           !.total_tokens = @ + call.meta,
                           !.scripts = IF Len(wfScripts) + 1 = wfSections
                                       THEN wfScripts' ELSE @]
    /\ wfPc' = IF Len(wfScripts) + 1 = wfSections THEN "slide" ELSE "script"
    /\ UNCHANGED <<wfMaxQaRetries, wfSections, wfAttempt, wfSlides, wfRounds, wfResult,
                   WfOthers>>

\* lines 109-117: slide_agent.generate_slide_plan(script, paper, i + 1) for
\* the next script, and after the last one self.state['slides'] = slides
WfSlide ==
    /\ wfPc = "slide"
    /\ \E call \in WfSlideCalls :
          /\ wfSlides' = Append(wfSlides, [round |-> wfScripts[Len(wfSlides) + 1].round,
                                           section |-> Len(wfSlides) + 1,
                                           image |-> call.image])
          /\ wfAgents' = [wfAgents EXCEPT !.slide_agent = @ + call.added]
          /\ wfState' = [wfState EXCEPT
                           !.total_tokens = @ + call.meta,
                           !.slides = IF Len(wfSlides) + 1 = Len(wfScripts)
                                      THEN wfSlides' ELSE @]
    /\ wfPc' = IF Len(wfSlides) + 1 = Len(wfScripts) THEN "qa" ELSE "slide"
    /\ UNCHANGED <<wfMaxQaRetries, wfSections, wfAttempt, wfScripts, wfRounds, wfResult,
                   WfOthers>>

\* the loop goes on with the next round whatever the report says
WfAfterReportNoBreak(report) ==
    IF wfAttempt + 1 < wfMaxQaRetries + 1
    THEN /\ wfPc' = "script"
         /\ wfAttempt' = wfAttempt + 1
         /\ wfRounds' = wfRounds + 1
         /\ wfScripts' = <<>>
         /\ wfSlides' = <<>>
         /\ wfState' = [wfState EXCEPT !.qa_report = report]
         /\ wfResult' = wfResult
    ELSE /\ wfPc' = "done"
         /\ wfResult' = WfReturn([wfState EXCEPT !.qa_report = report], wfAgents)
         /\ wfState' = [wfState EXCEPT
                          !.qa_report = report,
                          !.total_tokens = @ + wfAgents.orchestrator + wfAgents.script_agent
                                             + wfAgents.slide_agent]
         /\ UNCHANGED <<wfAttempt, wfRounds, wfScripts, wfSlides>>

\* lines 122-164: the report is stored; the loop is left when it passed or
\* after the last round, and run returns; otherwise the next round begins
WfAfterReport(report) ==
    IF ~report.overall_passed /\ wfAttempt + 1 < wfMaxQaRetries + 1
    THEN /\ wfPc' = "script"
         /\ wfAttempt' = wfAttempt + 1
         /\ wfRounds' = wfRounds + 1
         /\ wfScripts' = <<>>
         /\ wfSlides' = <<>>
         /\ wfState' = [wfState EXCEPT !.qa_report = report]
         /\ wfResult' = wfResult
    ELSE /\ wfPc' = "done"
         /\ wfResult' = WfReturn([wfState EXCEPT !.qa_report = report], wfAgents)
         /\ wfState' = [wfState EXCEPT
                          !.qa_report = report,
                          !.total_tokens = @ + wfAgents.orchestrator + wfAgents.script_agent
                                             + wfAgents.slide_agent]
         /\ UNCHANGED <<wfAttempt, wfRounds, wfScripts, wfSlides>>

\* lines 120-139: qa_agent.generate_quality_report(scripts, slides), with
\* what follows it
WfReport ==
    /\ wfPc = "qa"
    /\ \E scripts_issues \in {<<>>, <<1>>} :
          WfAfterReport(generate_quality_report(scripts_issues, wfSlides, wfRounds))
    /\ UNCHANGED <<wfMaxQaRetries, wfSections, wfAgents, WfOthers>>

WfNext == WfRaise \/ WfAnalyze \/ WfScript \/ WfSlide \/ WfReport

SpecWorkflow == WfInit /\ [][WfNext]_vars


\* C26: run performs at most max_qa_retries + 1 rounds (scripts, slides, QA
\* report); it stops right after the first round whose report has
\* overall_passed, and goes on while a round is left otherwise; the
\* scripts, the slides and the qa_report it returns all come from the same
\* round, the last one executed; and overall_passed of a report is true
\* exactly when the script issue list and the slide issue list of its round
\* are both empty.
C26_RoundsBounded ==
    [][/\ wfRounds' <= wfMaxQaRetries + 1
       /\ wfPc = "qa"
             => /\ wfState'.qa_report.round = wfRounds
                /\ wfState'.qa_report.overall_passed
                      <=> (/\ wfState'.qa_report.scripts_issues = <<>>
                           /\ \A k \in 1..Len(wfSlides) : wfSlides[k].image)
                /\ wfState'.qa_report.overall_passed => (wfPc' = "done" /\ wfRounds' = wfRounds)
                /\ wfPc' = "script"
                      <=> (~wfState'.qa_report.overall_passed /\ wfRounds < wfMaxQaRetries + 1)
       /\ wfPc' = "done"
             => /\ wfPc = "qa"
                /\ wfResult'.qa_report = wfState'.qa_report
                /\ wfResult'.qa_report.round = wfRounds
                /\ Len(wfResult'.scripts) = wfSections
                /\ Len(wfResult'.slides) = wfSections
                /\ \A k \in 1..wfSections :
                      /\ wfResult'.scripts[k].round = wfRounds
                      /\ wfResult'.slides[k].round = wfRounds]_vars

\* C26, its case: with max_qa_retries = 2 the second round passed, and run
\* has returned the scripts, the slides and the report of that round
C26_Witness ==
    /\ wfPc = "done"
    /\ wfMaxQaRetries = 2
    /\ wfRounds = 2
    /\ wfSections = 2
    /\ wfResult.qa_report.overall_passed
    /\ wfResult.scripts[2].round = 2

\* C30: in the result of run on a fresh workflow meta.total_tokens is the
\* sum of meta.orchestrator_tokens, meta.script_agent_tokens and
\* meta.slide_agent_tokens: the tokens of every call of the LLM are counted
\* exactly once, whatever the number of sections and of rounds.
C30_TotalIsSumOfAgents ==
    wfPc = "done" =>
        wfResult.meta.total_tokens
            = wfResult.meta.orchestrator_tokens + wfResult.meta.script_agent_tokens
                + wfResult.meta.slide_agent_tokens


(***************************************************************************)
(* Two threads that call generate_script on one ScriptAgent.  Of a call of *)
(* BaseAgent.call_llm the model keeps what is shared: the statements       *)
(* self.total_tokens += total and self.total_cost += cost of base.py 63    *)
(* and 67, each a read of the attribute and a later write of it, with no   *)
(* lock around them.  Everything else in generate_script works on locals.  *)
(***************************************************************************)
CcMaxCalls == 2

CcThreads == {1, 2}

\* prompt_tokens and completion_tokens of a call, and whether the response
\* gives a script that is accepted
CcOutcomes ==
    {[prompt |-> 100, completion |-> 50, accepted |-> TRUE],
     [prompt |-> 200, completion |-> 0, accepted |-> FALSE]}

\* base.py lines 72-83: _estimate_cost, 0.15 dollar per million prompt
\* tokens and 0.60 per million completion tokens, in units of 0.05
_estimate_cost(prompt_tokens, completion_tokens) == 3 * prompt_tokens + 12 * completion_tokens

\* a thread at the call of call_llm of its first attempt
CcStart ==
    [pc |-> "call", calls |-> 0, total |-> 0, cost |-> 0, read |-> 0, accepted |-> FALSE,
     used |-> 0, spent |-> 0, result |-> 0]

\* two threads call generate_script on a fresh agent
CcInit ==
    /\ ExIdle
    /\ SaIdle
    /\ LcIdle
    /\ QaIdle
    /\ OrIdle
    /\ PvIdle
    /\ TpIdle
    /\ WfIdle
    /\ ccTokens = 0
    /\ ccCost = 0
    /\ ccThreads = [t \in CcThreads |-> CcStart]

CcOthers == <<exVars, saVars, lcVars, qaVars, orVars, pvVars, tpVars, wfVars>>

\* base.py lines 46-62 and 66: the LLM answers thread t; total and, later, cost
\* are locals of the call; used and spent add up what the calls of the
\* thread have counted
CcCall(t) ==
    /\ ccThreads[t].pc = "call"
    /\ \E out \in CcOutcomes :
          ccThreads' = [ccThreads EXCEPT
                          ![t].pc = "read_tokens",
                          ![t].calls = @ + 1,
                          ![t].total = out.prompt + out.completion,
                          ![t].cost = _estimate_cost(out.prompt, out.completion),
                          ![t].accepted = out.accepted,
                          ![t].used = @ + out.prompt + out.completion,
                          ![t].spent = @ + _estimate_cost(out.prompt, out.completion)]
    /\ UNCHANGED <<ccTokens, ccCost, CcOthers>>

\* line 63, self.total_tokens += total: the attribute is read
CcReadTokens(t) ==
    /\ ccThreads[t].pc = "read_tokens"
    /\ ccThreads' = [ccThreads EXCEPT ![t].pc = "write_tokens", ![t].read = ccTokens]
    /\ UNCHANGED <<ccTokens, ccCost, CcOthers>>

\* line 63: the sum is stored
CcWriteTokens(t) ==
    /\ ccThreads[t].pc = "write_tokens"
    /\ ccTokens' = ccThreads[t].read + ccThreads[t].total
    /\ ccThreads' = [ccThreads EXCEPT ![t].pc = "read_cost"]
    /\ UNCHANGED <<ccCost, CcOthers>>

\* line 67, self.total_cost += cost: the attribute is read
CcReadCost(t) ==
    /\ ccThreads[t].pc = "read_cost"
    /\ ccThreads' = [ccThreads EXCEPT ![t].pc = "write_cost", ![t].read = ccCost]
    /\ UNCHANGED <<ccTokens, ccCost, CcOthers>>

\* the thread after call_llm has returned: generate_script returns the
\* script of an accepted response, marked by its attempt, goes on to the
\* next call, or ends without a script (result 0)
CcAfterCall(th) ==
    IF th.accepted THEN [th EXCEPT !.pc = "done", !.result = th.calls]
    ELSE IF th.calls < CcMaxCalls THEN [th EXCEPT !.pc = "call"]
    ELSE [th EXCEPT !.pc = "done"]

\* line 67: the sum is stored, and call_llm returns
CcWriteCost(t) ==
    /\ ccThreads[t].pc = "write_cost"
    /\ ccCost' = ccThreads[t].read + ccThreads[t].cost
    /\ ccThreads' = [ccThreads EXCEPT ![t] = CcAfterCall(@)]
    /\ UNCHANGED <<ccTokens, CcOthers>>

CcNext ==
    \E t \in CcThreads :
        CcCall(t) \/ CcReadTokens(t) \/ CcWriteTokens(t) \/ CcReadCost(t) \/ CcWriteCost(t)

SpecConcurrent == CcInit /\ [][CcNext]_vars

\* C28: two calls of generate_script that run concurrently on one agent are
\* serializable: each returns the script it returns alone with the same
\* responses, the script of its accepted attempt, and when both have
\* returned total_tokens and total_cost of the agent are what a sequential
\* execution of the two calls leaves, the sums over all the calls of the
\* LLM: no count is lost.
C28_Serializable ==
    (\A t \in CcThreads : ccThreads[t].pc = "done") =>
        /\ \A t \in CcThreads :
              ccThreads[t].result = IF ccThreads[t].accepted THEN ccThreads[t].calls ELSE 0
        /\ ccTokens = ccThreads[1].used + ccThreads[2].used
        /\ ccCost = ccThreads[1].spent + ccThreads[2].spent

=============================================================================
